---- MODULE Spec2Model ----
(***************************************************************************)
(* A model of the Deriv odd/even trading bot (src/bot.js): the event-driven *)
(* decision gate (ticks, deferred analyzeAndTrade callbacks, proposal, buy *)
(* and contract-update messages, the dry-run close timer, the periodic     *)
(* flush) together with the ensemble prediction and online learning code.  *)
(*                                                                         *)
(* Numbers.  JavaScript doubles are modelled in fixed point with three     *)
(* decimals: the integer x stands for x / 1000 (money included).           *)
(* Time is kept relative: a timer holds the time left until it is due, in  *)
(* units of 100 ms, and nextTradeTime holds nextTradeTime - Date.now()     *)
(* (0 once it has passed).                                                 *)
(***************************************************************************)
EXTENDS Integers, Sequences, FiniteSets, TLC

(***************************************************************************)
(* Fixed-point arithmetic                                                  *)
(***************************************************************************)
S == 10 * 100

Abs(x) == IF x < 0 THEN -x ELSE x
Max(a, b) == IF a > b THEN a ELSE b
Min(a, b) == IF a < b THEN a ELSE b

\* a / b rounded to the nearest integer (b > 0)
RDiv(a, b) == (2 * a + b) \div (2 * b)

\* product of two fixed-point numbers
Mul(a, b) == RDiv(a * b, S)

\* quotient of two fixed-point numbers (b > 0)
Quo(a, b) == RDiv(a * S, b)

\* IEEE specials that the code can produce
NaN == 0 - 1000000000
Infinity == 0 + 1000000000

RECURSIVE SumOver(_, _)
SumOver(f, n) == IF n = 0 THEN 0 ELSE f[n] + SumOver(f, n - 1)

\* Math.log(n) for n = 1..64
LnTable ==
  <<0, 693, 1099, 1386, 1609, 1792, 1946, 2079, 2197, 2303, 2398, 2485, 2565,
    2639, 2708, 2773, 2833, 2890, 2944, 2996, 3045, 3091, 3135, 3178, 3219,
    3258, 3296, 3332, 3367, 3401, 3434, 3466, 3497, 3526, 3555, 3584, 3611,
    3638, 3664, 3689, 3714, 3738, 3761, 3784, 3807, 3829, 3850, 3871, 3892,
    3912, 3932, 3951, 3970, 3989, 4007, 4025, 4043, 4060, 4078, 4094, 4111,
    4127, 4143, 4159>>

\* Math.log2(n) for n = 1..64
Log2Table ==
  <<0, 1000, 1585, 2000, 2322, 2585, 2807, 3000, 3170, 3322, 3459, 3585, 3700,
    3807, 3907, 4000, 4087, 4170, 4248, 4322, 4392, 4459, 4524, 4585, 4644,
    4700, 4755, 4807, 4858, 4907, 4954, 5000, 5044, 5087, 5129, 5170, 5209,
    5248, 5285, 5322, 5358, 5392, 5426, 5459, 5492, 5524, 5555, 5585, 5615,
    5644, 5672, 5700, 5728, 5755, 5781, 5807, 5833, 5858, 5883, 5907, 5931,
    5954, 5977, 6000>>

\* Math.tanh(x * 10) * 0.1 at the trend strengths the model feeds in
TrendScoreOf(trendStrength) ==
  CASE trendStrength = Infinity -> 100
    [] trendStrength = 100 -> 76
    [] trendStrength = 0 - 100 -> 0 - 76
    [] OTHER -> 0

(***************************************************************************)
(* Configuration (config.json and the environment, read through            *)
(* src/utils/config.js).  The engine reads every knob through config.get;  *)
(* a configuration is a record of the knobs, fixed for a run.              *)
(* Durations are in units of 100 ms.                                       *)
(***************************************************************************)
LiveConfig ==
  [enableTrading |-> TRUE,
   baseLearningRate |-> 150,
   learningRateDecay |-> 995,
   discountFactor |-> 900,
   epsilon |-> 50,
   baseConfidenceThreshold |-> 550,
   martingaleMultiplier |-> 2000,
   baseStake |-> 1000,
   cooldownMs |-> 10,
   maxHistory |-> 52,
   maxTradeHistory |-> 12,
   maxPatternMemory |-> 2,
   maxContextMemory |-> 25,
   reconnectEnabled |-> TRUE,
   reconnectMaxAttempts |-> 1,
   reconnectIntervalMs |-> 50]

DryRunConfig == [LiveConfig EXCEPT !.enableTrading = FALSE]

Sides == {"odd", "even"}
Models == <<"stat", "markov", "trend", "qlearning", "streak", "pattern",
            "entropy", "cycle">>
ModelSet == {Models[i] : i \in 1..Len(Models)}
Strategies == <<"conservative", "balanced", "aggressive">>

(***************************************************************************)
(* Feature extractors: pure functions of a window of the tick buffer.      *)
(* A tick is [epoch, digit]; its class is the parity of the digit.         *)
(***************************************************************************)
ClassOf(t) == t.digit % 2
TypeOf(t) == IF t.digit % 2 = 1 THEN "odd" ELSE "even"

\* Array.prototype.slice(-n)
LastN(s, n) == IF Len(s) <= n THEN s ELSE SubSeq(s, Len(s) - n + 1, Len(s))

calculateStatisticalProbability(recent) ==
  LET n == Len(recent)
      oddCount == Cardinality({i \in 1..n : ClassOf(recent[i]) = 1})
      evenCount == n - oddCount
      oddProb == RDiv(oddCount * S, n)
      evenProb == RDiv(evenCount * S, n)
      deviation == Abs(oddProb - 500)
  IN IF deviation > 150
       THEN LET o == oddProb + (IF oddProb < 500 THEN 100 ELSE 0 - 100)
            IN [oddProb |-> o, evenProb |-> S - o]
       ELSE [oddProb |-> oddProb, evenProb |-> evenProb]

calculateMarkovProbabilities(history) ==
  IF Len(history) < 3
    THEN [oddToOdd |-> 500, oddToEven |-> 500, evenToOdd |-> 500, evenToEven |-> 500]
    ELSE LET n == Len(history)
             T(p, c) == Cardinality({i \in 2..n : ClassOf(history[i - 1]) = p
                                                  /\ ClassOf(history[i]) = c})
             cOdd == T(1, 1) + T(1, 0)
             cEven == T(0, 1) + T(0, 0)
             dOdd == IF cOdd = 0 THEN 1 ELSE cOdd
             dEven == IF cEven = 0 THEN 1 ELSE cEven
         IN [oddToOdd |-> RDiv(T(1, 1) * S, dOdd),
             oddToEven |-> RDiv(T(1, 0) * S, dOdd),
             evenToOdd |-> RDiv(T(0, 1) * S, dEven),
             evenToEven |-> RDiv(T(0, 0) * S, dEven)]

calculateStreak(history) ==
  IF Len(history) < 2
    THEN [length |-> 0, type |-> "none", momentum |-> 0]
    ELSE LET n == Len(history)
             lastType == TypeOf(history[n])
             \* the first index of the trailing run of lastType
             start == CHOOSE k \in 1..n :
                        /\ \A i \in k..n : TypeOf(history[i]) = lastType
                        /\ (k = 1 \/ TypeOf(history[k - 1]) # lastType)
             recent10 == LastN(history, 10)
             typeCount == Cardinality({i \in 1..Len(recent10) :
                                         TypeOf(recent10[i]) = lastType})
         IN [length |-> n - start + 1,
             type |-> lastType,
             momentum |-> IF n >= 10 THEN typeCount * 100 - 500 ELSE 0]

calculateStreakAdjustments(streak) ==
  IF streak.length > 3
    THEN LET streakPenalty == Mul(LnTable[streak.length - 2], 120)
             momentumBonus == Mul(streak.momentum, 80)
         IN IF streak.type = "odd"
              THEN [odd |-> momentumBonus - streakPenalty,
                    even |-> streakPenalty - momentumBonus]
              ELSE [odd |-> streakPenalty - momentumBonus,
                    even |-> momentumBonus - streakPenalty]
    ELSE [odd |-> 0, even |-> 0]

\* Shannon entropy of the 10-way digit distribution, normalised by log2(10)
\* an entropy over the two digit classes
calculateEntropyOfClasses(history, window) ==
  IF Len(history) < window
    THEN 0
    ELSE LET recent == LastN(history, window)
             count(c) == Cardinality({i \in 1..window : ClassOf(recent[i]) = c})
             term(c) == IF count(c) > 0
                          THEN count(c) * (Log2Table[window] - Log2Table[count(c)])
                          ELSE 0
         IN RDiv((term(0) + term(1)) * S, window * Log2Table[10])

\* the sum of -p * log2(p) over the digits, with p = count / window, divided
\* by log2(10); rounded once, at the end
calculateEntropy(history, window) ==
  IF Len(history) < window
    THEN 0
    ELSE LET recent == LastN(history, window)
             count(d) == Cardinality({i \in 1..window : recent[i].digit = d})
             term(d) == IF count(d) > 0
                          THEN count(d) * (Log2Table[window] - Log2Table[count(d)])
                          ELSE 0
             terms == [d \in 1..10 |-> term(d - 1)]
         IN RDiv(SumOver(terms, 10) * S, window * Log2Table[10])

calculateEntropyAdjustments(entropy, state) ==
  IF entropy > 900
    THEN [odd |-> IF state = "odd" THEN 0 - 50 ELSE 50,
          even |-> IF state = "even" THEN 0 - 50 ELSE 50]
    ELSE IF entropy < 700
      THEN [odd |-> IF state = "odd" THEN 80 ELSE 0 - 80,
            even |-> IF state = "even" THEN 80 ELSE 0 - 80]
      ELSE [odd |-> 0, even |-> 0]

\* matches and comparisons of period p over the class sequence seq
CycleMatches(seq, p) == Cardinality({i \in (p + 1)..Len(seq) : seq[i] = seq[i - p]})

\* a best period that a later period of equal score replaces
RECURSIVE BestPeriodLastWins(_, _)
BestPeriodLastWins(seq, p) ==
  IF p < 2
    THEN [period |-> 0, matches |-> 0, total |-> 1]
    ELSE LET prev == BestPeriodLastWins(seq, p - 1)
             m == CycleMatches(seq, p)
             t == Len(seq) - p
         IN IF m * prev.total >= prev.matches * t
              THEN [period |-> p, matches |-> m, total |-> t]
              ELSE prev

\* the best period among 2..p: the first one whose score is strictly greater
RECURSIVE BestPeriod(_, _)
BestPeriod(seq, p) ==
  IF p < 2
    THEN [period |-> 0, matches |-> 0, total |-> 1]
    ELSE LET prev == BestPeriod(seq, p - 1)
             m == CycleMatches(seq, p)
             t == Len(seq) - p
         IN IF m * prev.total > prev.matches * t
              THEN [period |-> p, matches |-> m, total |-> t]
              ELSE prev

detectCyclicPattern(history, maxPeriod) ==
  IF Len(history) < maxPeriod * 2
    THEN [hasCycle |-> FALSE, period |-> 0, strength |-> 0]
    ELSE LET tail == LastN(history, maxPeriod * 3)
             seq == [i \in 1..Len(tail) |-> ClassOf(tail[i])]
             best == BestPeriod(seq, maxPeriod)
         IN [hasCycle |-> best.matches * 100 > 65 * best.total,
             period |-> best.period,
             strength |-> RDiv(best.matches * S, best.total)]

analyzeCyclicPattern(cycleInfo, recent) ==
  IF cycleInfo.hasCycle /\ cycleInfo.strength > 700
    THEN LET p == 500 + Mul(cycleInfo.strength, 200)
         IN IF TypeOf(recent[Len(recent) - cycleInfo.period + 1]) = "odd"
              THEN [odd |-> p, even |-> S - p]
              ELSE [odd |-> S - p, even |-> p]
    ELSE [odd |-> 500, even |-> 500]

VolLevel(volatility) ==
  IF volatility < 300 THEN "low" ELSE IF volatility < 700 THEN "medium" ELSE "high"
EntLevel(entropy) ==
  IF entropy < 700 THEN "low" ELSE IF entropy < 900 THEN "medium" ELSE "high"

getDeepState(volatility, trend, streak) ==
  <<VolLevel(volatility),
    IF trend > 50 THEN "bullish" ELSE IF trend < 0 - 50 THEN "bearish" ELSE "neutral",
    IF streak < 3 THEN "short" ELSE IF streak < 6 THEN "medium" ELSE "long">>

DeepStates ==
  {<<v, t, s>> : v \in {"low", "medium", "high"},
                 t \in {"bullish", "neutral", "bearish"},
                 s \in {"short", "medium", "long"}}
MetaStates == {<<v, e>> : v \in {"low", "medium", "high"}, e \in {"low", "medium", "high"}}

getDefaultQTable == [s \in Sides |-> [a \in Sides |-> 500]]
getDefaultDeepQTable == [d \in DeepStates |-> [a \in Sides |-> 500]]


(***************************************************************************)
(* Memory matchers                                                         *)
(***************************************************************************)
Neutral == [odd |-> 500, even |-> 500]

\* similarity of a stored pattern with the current 5-class window, in fifths
PatternSimilarity(patternItem, current) ==
  IF Len(patternItem.sequence) # 5
    THEN 0
    ELSE Cardinality({i \in 1..5 : patternItem.sequence[i] = current[i]})

analyzePatterns(recent, patternMemory) ==
  IF Len(recent) >= 10 /\ Len(patternMemory) > 0
    THEN LET tail == LastN(recent, 5)
             current == [i \in 1..5 |-> ClassOf(tail[i])]
             sim(k) == PatternSimilarity(patternMemory[k], current)
             cands == {k \in 1..Len(patternMemory) : sim(k) >= 4}
         IN IF cands = {}
              THEN Neutral
              ELSE LET best == CHOOSE k \in cands :
                                 \A j \in cands : sim(j) < sim(k) \/ (sim(j) = sim(k) /\ k <= j)
                       confidence == Mul(sim(best) * 200, patternMemory[best].successRate)
                       p == 500 + Mul(confidence, 300)
                   IN IF patternMemory[best].nextOutcome = "odd"
                        THEN [odd |-> p, even |-> S - p]
                        ELSE [odd |-> S - p, even |-> p]
    ELSE Neutral

ContextSimilarity(ctx, volatility, entropy, streakLength) ==
  S - RDiv(Abs(ctx.volatility - volatility) + Abs(ctx.entropy - entropy)
           + Abs(ctx.streak - streakLength) * 100, 3)

getContextBias(contextMemory, volatility, entropy, streakLength) ==
  IF Len(contextMemory) >= 20
    THEN LET cm == LastN(contextMemory, 100)
             sim(k) == ContextSimilarity(cm[k], volatility, entropy, streakLength)
             cands == {k \in 1..Len(cm) : sim(k) > 700}
         IN IF cands = {}
              THEN 0
              ELSE LET best == CHOOSE k \in cands :
                                 \A j \in cands : sim(j) < sim(k) \/ (sim(j) = sim(k) /\ k <= j)
                       contextWeight == Mul(100, sim(best))
                   IN IF cm[best].result = "win"
                        THEN IF cm[best].prediction = "odd"
                               THEN contextWeight ELSE 0 - contextWeight
                        ELSE 0
    ELSE 0

(***************************************************************************)
(* Adaptive weighting and fusion                                           *)
(***************************************************************************)
initModelPerformance == [m \in ModelSet |-> [correct |-> 0, total |-> 0]]

SumModels(f) == SumOver([i \in 1..Len(Models) |-> f[Models[i]]], Len(Models))

getAdaptiveWeights(modelPerformance) ==
  LET accuracy(m) == IF modelPerformance[m].total > 0
                       THEN RDiv(modelPerformance[m].correct * S, modelPerformance[m].total)
                       ELSE 500
      squared == [m \in ModelSet |-> Mul(accuracy(m), accuracy(m))]
      totalAccuracy == SumModels(squared)
      floored == [m \in ModelSet |->
                    Max(50, IF totalAccuracy > 0
                              THEN Quo(squared[m], totalAccuracy)
                              ELSE RDiv(S, Len(Models)))]
      total == SumModels(floored)
  IN [m \in ModelSet |-> Quo(floored[m], total)]

\* a / b for fixed-point numbers of any sign, as the IEEE division does it
FDiv(a, b) ==
  IF b = 0
    THEN IF a = 0 THEN NaN ELSE IF a > 0 THEN Infinity ELSE 0 - Infinity
    ELSE IF b > 0 THEN RDiv(a * S, b) ELSE RDiv((0 - a) * S, 0 - b)

IsSpecial(x) == x = NaN \/ x = Infinity \/ x = 0 - Infinity

bayesianFusion(modelProbs, modelWeights) ==
  LET weight(m) == IF modelWeights[m] = 0 THEN 125 ELSE modelWeights[m]
      posteriorOdd == 500 + SumModels([m \in ModelSet |-> Mul(weight(m), modelProbs[m].odd)])
      posteriorEven == 500 + SumModels([m \in ModelSet |-> Mul(weight(m), modelProbs[m].even)])
      total == posteriorOdd + posteriorEven
  IN [odd |-> FDiv(posteriorOdd, total), even |-> FDiv(posteriorEven, total)]

\* a consensus measured by the share of the odd votes
checkModelConsensusOddShare(modelPredictions) ==
  LET oddCount == Cardinality({m \in ModelSet : modelPredictions[m] = "odd"})
      evenCount == Cardinality({m \in ModelSet : modelPredictions[m] = "even"})
      agreement == RDiv(oddCount * S, Len(Models))
  IN [agreement |-> agreement,
      prediction |-> IF oddCount > evenCount THEN "odd" ELSE "even",
      hasConsensus |-> agreement >= 600]

checkModelConsensus(modelPredictions) ==
  LET oddCount == Cardinality({m \in ModelSet : modelPredictions[m] = "odd"})
      evenCount == Cardinality({m \in ModelSet : modelPredictions[m] = "even"})
      agreement == RDiv(Max(oddCount, evenCount) * S, Len(Models))
  IN [agreement |-> agreement,
      prediction |-> IF oddCount > evenCount THEN "odd" ELSE "even",
      hasConsensus |-> agreement >= 600]


(***************************************************************************)
(* Reasoning health and the adaptive confidence threshold                  *)
(***************************************************************************)
\* the value of an absent property
Undefined == 0 - 999999999

SeqSum(s) == SumOver(s, Len(s))

WeightSpread(t) ==
  LET hi == CHOOSE m \in ModelSet : \A k \in ModelSet : t.weights[k] <= t.weights[m]
      lo == CHOOSE m \in ModelSet : \A k \in ModelSet : t.weights[k] >= t.weights[m]
  IN t.weights[hi] - t.weights[lo]

\* the health score, and whether reasoningHealth was rewritten
calculateReasoningHealth(tradeHistory) ==
  LET recent20 == LastN(tradeHistory, 20)
      n == Len(recent20)
  IN IF n < 10
       THEN [healthScore |-> S, stored |-> FALSE]
       ELSE LET avgConf == RDiv(SeqSum([i \in 1..n |-> recent20[i].confidence]), n)
                variance == RDiv(SeqSum([i \in 1..n |->
                                   Mul(recent20[i].confidence - avgConf,
                                       recent20[i].confidence - avgConf)]), n)
                recentWins == Cardinality({i \in 1..n : recent20[i].profit # Undefined
                                                        /\ recent20[i].profit > 0})
                recentWinRate == RDiv(recentWins * S, n)
                winRateDrift == Abs(recentWinRate - 500)
                avgDisagreement == RDiv(SeqSum([i \in 1..n |-> WeightSpread(recent20[i])]), n)
            IN [healthScore |-> Max(300, S - variance * 2 - Mul(winRateDrift, 1500)
                                           - Mul(avgDisagreement, 500)),
                stored |-> TRUE]

\* a threshold that is adjusted after the clamp
ThresholdClampedFirst(health, entropy, base) ==
  LET t0 == Min(750, Max(520, base))
      t1 == IF health < 600 THEN t0 + 80 ELSE IF health > 850 THEN t0 - 30 ELSE t0
  IN IF entropy > 900 THEN t1 + 50 ELSE t1

\* lines 1106-1120: the threshold for a health score, an entropy and a base
ThresholdFor(health, entropy, base) ==
  LET t1 == IF health < 600 THEN base + 80 ELSE IF health > 850 THEN base - 30 ELSE base
      t2 == IF entropy > 900 THEN t1 + 50 ELSE t1
  IN Min(750, Max(520, t2))

getAdaptiveConfidenceThreshold(tradeHistory, entropy, cfg) ==
  ThresholdFor(calculateReasoningHealth(tradeHistory).healthScore, entropy,
               cfg.baseConfidenceThreshold)

(***************************************************************************)
(* Risk sizing                                                             *)
(***************************************************************************)
getDefaultMetaQTable ==
  [m \in MetaStates |-> [i \in 1..Len(Strategies) |-> [k |-> Strategies[i], v |-> 500]]]

\* strategies[a] > strategies[b], false when either is NaN or undefined
JsGreater(a, b) == a # NaN /\ b # NaN /\ a # Undefined /\ b # Undefined /\ a > b

\* Object.keys(strategies).reduce((a, b) => strategies[a] > strategies[b] ? a : b)
RECURSIVE ReduceBest(_, _)
ReduceBest(entries, n) ==
  IF n = 1
    THEN entries[1]
    ELSE LET a == ReduceBest(entries, n - 1)
         IN IF JsGreater(a.v, entries[n].v) THEN a ELSE entries[n]

selectStrategy(metaQTable, volatility, entropy) ==
  LET state == <<VolLevel(volatility), EntLevel(entropy)>>
  IN IF state \notin DOMAIN metaQTable
       THEN "balanced"
       ELSE ReduceBest(metaQTable[state], Len(metaQTable[state])).k

\* r * m, anything beyond a hundredfold kept as Infinity (the stake is capped
\* at tenfold)
Saturate(r, m) ==
  IF r = Infinity THEN Infinity ELSE IF Mul(r, m) > 100 * S THEN Infinity ELSE Mul(r, m)

\* Math.pow(martingaleMultiplier, n)
RECURSIVE Pow(_, _)
Pow(m, n) == IF n = 0 THEN S ELSE Saturate(Pow(m, n - 1), m)

\* calculateStake without its safety limit
StakeUncapped(stake, maxStake) == stake

\* Math.min(stake, maxStake)
StakeCap(stake, maxStake) == Min(stake, maxStake)

calculateStake(metaQTable, consecutiveLosses, volatility, entropy, confidence, cfg) ==
  LET recommendedStrategy == selectStrategy(metaQTable, volatility, entropy)
      strategyMultiplier ==
        IF recommendedStrategy = "conservative"
          THEN 750
          ELSE IF recommendedStrategy = "aggressive" /\ confidence # NaN /\ confidence > 650
                 THEN 1250
                 ELSE S
      power == Pow(cfg.martingaleMultiplier, consecutiveLosses)
      raw == IF power = Infinity
               THEN Infinity
               ELSE Mul(Mul(cfg.baseStake, power), strategyMultiplier)
      \* Math.round(stake * 100) / 100
      rounded == IF raw = Infinity THEN Infinity ELSE RDiv(raw, 10) * 10
  IN StakeCap(rounded, cfg.baseStake * 10)

(***************************************************************************)
(* Learning updates                                                        *)
(***************************************************************************)
QTarget(reward, q) == reward * S - q

\* an update that moves both sides of the shallow row
updateQTableBothSides(b, state, action, reward, deepState, cfg) ==
  [b EXCEPT
     !.qTable[state] = [a \in Sides |-> @[a] + Mul(b.currentLearningRate,
                                                    QTarget(reward, @[a]))],
     !.deepQTable[deepState][action] =
        @ + Mul(b.currentLearningRate,
                reward * S + Mul(cfg.discountFactor,
                                 Max(b.deepQTable[deepState]["odd"],
                                     b.deepQTable[deepState]["even"])) - @),
     !.currentLearningRate = Max(10, Mul(b.currentLearningRate, cfg.learningRateDecay))]

\* an update whose shallow target is twice the reward
updateQTableDoubleReward(b, state, action, reward, deepState, cfg) ==
  LET q == b.qTable[state][action]
  IN [b EXCEPT
        !.qTable[state][action] = q + Mul(b.currentLearningRate, QTarget(2 * reward, q)),
        !.currentLearningRate = Max(10, Mul(b.currentLearningRate, cfg.learningRateDecay))]

\* the tables and the learning rate after updateQTable
updateQTable(b, state, action, reward, deepState, cfg) ==
  LET q == b.qTable[state][action]
      dq == b.deepQTable[deepState][action]
      best == Max(b.deepQTable[deepState]["odd"], b.deepQTable[deepState]["even"])
  IN [b EXCEPT
        !.qTable[state][action] = q + Mul(b.currentLearningRate, QTarget(reward, q)),
        !.deepQTable = IF deepState \in DOMAIN b.deepQTable
                         THEN [b.deepQTable EXCEPT ![deepState][action] =
                                 dq + Mul(b.currentLearningRate,
                                          reward * S + Mul(cfg.discountFactor, best) - dq)]
                         ELSE b.deepQTable,
        !.currentLearningRate = Max(10, Mul(b.currentLearningRate, cfg.learningRateDecay))]

IsCorrect(vote, actualOutcome) == vote = actualOutcome

updateModelPerformance(modelPerformance, predictions, actualOutcome) ==
  [m \in ModelSet |->
     [total |-> modelPerformance[m].total + 1,
      correct |-> modelPerformance[m].correct
                  + (IF IsCorrect(predictions[m], actualOutcome) THEN 1 ELSE 0)]]

\* Array.prototype.slice(-k): slice(-0) is slice(0), the whole array
SliceLast(s, k) == IF k = 0 THEN s ELSE LastN(s, k)

storeContext(contextMemory, trade, result, cfg) ==
  LET pushed == Append(contextMemory,
                       [volatility |-> trade.volatility,
                        entropy |-> trade.entropy,
                        streak |-> trade.streak,
                        confidence |-> trade.confidence,
                        prediction |-> trade.prediction,
                        result |-> result,
                        timestamp |-> trade.timestamp])
  IN IF Len(pushed) > cfg.maxContextMemory
       THEN SliceLast(pushed, (cfg.maxContextMemory * 6) \div 10)
       ELSE pushed

MetaValue(entries, key) ==
  IF \E i \in 1..Len(entries) : entries[i].k = key
    THEN entries[CHOOSE i \in 1..Len(entries) : entries[i].k = key].v
    ELSE Undefined

\* Math.max(...Object.values(entries)): NaN as soon as one value is NaN
MetaMax(entries) ==
  IF \E i \in 1..Len(entries) : entries[i].v = NaN
    THEN NaN
    ELSE entries[CHOOSE i \in 1..Len(entries) :
                   \A j \in 1..Len(entries) : entries[j].v <= entries[i].v].v

updateMetaQTable(metaQTable, volatilityState, entropyState, strategy, reward) ==
  LET state == <<volatilityState, entropyState>>
  IN IF state \notin DOMAIN metaQTable
       THEN metaQTable
       ELSE LET entries == metaQTable[state]
                currentQ == MetaValue(entries, strategy)
                maxNextQ == MetaMax(entries)
                newQ == IF currentQ = Undefined \/ currentQ = NaN \/ maxNextQ = NaN
                          THEN NaN
                          ELSE currentQ + Mul(100, reward * S + Mul(900, maxNextQ) - currentQ)
            IN [metaQTable EXCEPT ![state] =
                  IF currentQ = Undefined
                    THEN Append(entries, [k |-> strategy, v |-> newQ])
                    ELSE [i \in 1..Len(entries) |->
                            IF entries[i].k = strategy
                              THEN [k |-> strategy, v |-> newQ]
                              ELSE entries[i]]]

PatternScore(p) == p.successRate * p.occurrences

\* insert x into a sequence sorted by descending score, after its equals
RECURSIVE InsertSorted(_, _)
InsertSorted(sorted, x) ==
  IF sorted = <<>>
    THEN <<x>>
    ELSE IF PatternScore(x) > PatternScore(Head(sorted))
           THEN <<x>> \o sorted
           ELSE <<Head(sorted)>> \o InsertSorted(Tail(sorted), x)

\* Array.prototype.sort with (b.score - a.score): stable, descending
RECURSIVE SortPatterns(_, _)
SortPatterns(pm, n) ==
  IF n = 0 THEN <<>> ELSE InsertSorted(SortPatterns(pm, n - 1), pm[n])

\* a pattern memory that drops its oldest entries when it is over capacity
storePatternDropOldest(patternMemory, sequence, outcome, wasCorrect, cfg) ==
  LET found == {i \in 1..Len(patternMemory) : patternMemory[i].sequence = sequence}
      updated ==
        IF found # {}
          THEN LET i == CHOOSE k \in found : TRUE
                   e == patternMemory[i]
               IN [patternMemory EXCEPT ![i] =
                     [sequence |-> e.sequence,
                      nextOutcome |-> IF wasCorrect THEN outcome ELSE e.nextOutcome,
                      occurrences |-> e.occurrences + 1,
                      successes |-> e.successes + (IF wasCorrect THEN 1 ELSE 0),
                      successRate |-> RDiv((e.successes + (IF wasCorrect THEN 1 ELSE 0)) * S,
                                           e.occurrences + 1)]]
          ELSE Append(patternMemory,
                      [sequence |-> sequence,
                       nextOutcome |-> outcome,
                       occurrences |-> 1,
                       successes |-> IF wasCorrect THEN 1 ELSE 0,
                       successRate |-> IF wasCorrect THEN S ELSE 0])
  IN LastN(updated, cfg.maxPatternMemory)

\* storePattern (lines 1390-1416)
storePattern(patternMemory, sequence, outcome, wasCorrect, cfg) ==
  LET found == {i \in 1..Len(patternMemory) : patternMemory[i].sequence = sequence}
      updated ==
        IF found # {}
          THEN LET i == CHOOSE k \in found : \A j \in found : k <= j
                   e == patternMemory[i]
                   occ == e.occurrences + 1
                   suc == e.successes + (IF wasCorrect THEN 1 ELSE 0)
               IN [patternMemory EXCEPT ![i] =
                     [sequence |-> e.sequence,
                      nextOutcome |-> IF wasCorrect THEN outcome ELSE e.nextOutcome,
                      occurrences |-> occ,
                      successes |-> suc,
                      successRate |-> RDiv(suc * S, occ)]]
          ELSE Append(patternMemory,
                      [sequence |-> sequence,
                       nextOutcome |-> outcome,
                       occurrences |-> 1,
                       successes |-> IF wasCorrect THEN 1 ELSE 0,
                       successRate |-> IF wasCorrect THEN S ELSE 0])
  IN IF Len(updated) > cfg.maxPatternMemory
       THEN SubSeq(SortPatterns(updated, Len(updated)), 1, cfg.maxPatternMemory)
       ELSE updated


(***************************************************************************)
(* The decision: everything analyzeAndTrade computes before it acts.       *)
(* volIn and trendIn stand for calculateVolatility(recent, 50) and the     *)
(* relative EMA gap, which are functions of the quotes the venue chose;    *)
(* with fewer than 50 ticks the code yields volatility 0 and divides the   *)
(* short EMA by a long EMA of 0.                                           *)
(***************************************************************************)
FinalProbs(bayesianResult, contextBias, cycleInfo, cycle, integrityScore) ==
  IF IsSpecial(bayesianResult.odd) \/ IsSpecial(bayesianResult.even)
    THEN [odd |-> NaN, even |-> NaN]
    ELSE LET o1 == bayesianResult.odd + contextBias
             e1 == bayesianResult.even - contextBias
             o2 == IF cycleInfo.hasCycle THEN Mul(o1, 850) + Mul(cycle.odd, 150) ELSE o1
             e2 == IF cycleInfo.hasCycle THEN Mul(e1, 850) + Mul(cycle.even, 150) ELSE e1
             o3 == IF integrityScore < 900
                     THEN Mul(o2, integrityScore) + Mul(500, S - integrityScore) ELSE o2
             e3 == IF integrityScore < 900
                     THEN Mul(e2, integrityScore) + Mul(500, S - integrityScore) ELSE e2
             total == o3 + e3
         IN [odd |-> FDiv(o3, total), even |-> FDiv(e3, total)]

Analysis(b, volIn, trendIn) ==
  LET recent == LastN(b.tickHistory, 500)
      state == TypeOf(recent[Len(recent)])
      stat == calculateStatisticalProbability(recent)
      markovProbs == calculateMarkovProbabilities(recent)
      markov == IF state = "odd"
                  THEN [odd |-> markovProbs.oddToOdd, even |-> markovProbs.oddToEven]
                  ELSE [odd |-> markovProbs.evenToOdd, even |-> markovProbs.evenToEven]
      volatility == IF Len(recent) < 50 THEN 0 ELSE volIn
      trendStrength == IF Len(recent) < 50 THEN Infinity ELSE trendIn
      trendScore == TrendScoreOf(trendStrength)
      volatilityAdjustment ==
        IF volatility > 600 THEN 0 - 80 ELSE IF volatility < 300 THEN 50 ELSE 0
      streak == calculateStreak(recent)
      deepState == getDeepState(volatility, trendStrength, streak.length)
      deepQ == IF deepState \in DOMAIN b.deepQTable THEN b.deepQTable[deepState] ELSE Neutral
      blended == [odd |-> Mul(b.qTable[state]["odd"], 400) + Mul(deepQ["odd"], 600),
                  even |-> Mul(b.qTable[state]["even"], 400) + Mul(deepQ["even"], 600)]
      streakAdj == calculateStreakAdjustments(streak)
      pattern == analyzePatterns(recent, b.patternMemory)
      entropy == calculateEntropy(recent, 50)
      entropyAdj == calculateEntropyAdjustments(entropy, state)
      cycleInfo == detectCyclicPattern(recent, 20)
      cycle == analyzeCyclicPattern(cycleInfo, recent)
      contextBias == getContextBias(b.contextMemory, volatility, entropy, streak.length)
      adaptiveWeights == getAdaptiveWeights(b.modelPerformance)
      modelProbs ==
        [m \in ModelSet |->
           CASE m = "stat" -> [odd |-> stat.oddProb, even |-> stat.evenProb]
             [] m = "markov" -> markov
             [] m = "trend" -> [odd |-> 500 + trendScore + volatilityAdjustment,
                                even |-> 500 - trendScore + volatilityAdjustment]
             [] m = "qlearning" -> blended
             [] m = "streak" -> [odd |-> 500 + streakAdj.odd, even |-> 500 + streakAdj.even]
             [] m = "pattern" -> pattern
             [] m = "entropy" -> [odd |-> 500 + entropyAdj.odd, even |-> 500 + entropyAdj.even]
             [] m = "cycle" -> cycle]
      modelPredictions ==
        [m \in ModelSet |->
           IF m = "trend"
             THEN IF 500 + trendScore + volatilityAdjustment > 500 THEN "odd" ELSE "even"
             ELSE IF modelProbs[m].odd > modelProbs[m].even THEN "odd" ELSE "even"]
      bayesianResult == bayesianFusion(modelProbs, adaptiveWeights)
      final == FinalProbs(bayesianResult, contextBias, cycleInfo, cycle, b.integrity.score)
  IN [state |-> state,
      deepState |-> deepState,
      volatility |-> volatility,
      entropy |-> entropy,
      streak |-> streak.length,
      modelProbs |-> modelProbs,
      modelPredictions |-> modelPredictions,
      weights |-> adaptiveWeights,
      consensus |-> checkModelConsensus(modelPredictions),
      bayesianResult |-> bayesianResult,
      finalProbOdd |-> final.odd,
      finalProbEven |-> final.even]

\* Math.max(finalProbOdd, finalProbEven)
RawConfidence(a) ==
  IF a.finalProbOdd = NaN \/ a.finalProbEven = NaN
    THEN NaN
    ELSE Max(a.finalProbOdd, a.finalProbEven)

\* 0.7 * smoothedConfidence + 0.3 * rawConfidence
Smooth(prev, raw) ==
  IF prev = NaN \/ raw = NaN
    THEN NaN
    ELSE IF IsSpecial(raw) THEN raw
    ELSE IF IsSpecial(prev) THEN prev
    ELSE Mul(700, prev) + Mul(300, raw)

\* an epsilon that is the configured one in every mode
ModeEpsilonOfConfig(mode, cfg) == cfg.epsilon

\* lines 645-648: the exploration probability of the mode
ModeEpsilon(mode, cfg) ==
  IF mode = "exploration" THEN 100 ELSE IF mode = "precision" THEN 0 ELSE cfg.epsilon


(***************************************************************************)
(* Persistence (utils/storage.js and the load and save of bot.js)          *)
(***************************************************************************)
\* the keys of loadPersistedData and savePersistedData
PersistedKeys ==
  {"qtables", "deepQtables", "metaQtables", "patternMemory", "contextMemory",
   "modelPerformance", "tradeHistory"}

\* the keys whose values are objects; the others hold arrays
TableKeys == {"qtables", "deepQtables", "metaQtables", "modelPerformance"}

\* a file is absent, unparseable, or holds the text of a value; the text is
\* held as what JSON.parse gives back for it (null, for the text "null").  A
\* cache entry is a parsed value, or there is none.
NoFile == [kind |-> "absent"]
Unparseable == [kind |-> "corrupt"]
NoEntry == [kind |-> "none"]
JsonNull == [kind |-> "null"]

\* JSON.parse(JSON.stringify(value)): a number that is NaN or infinite is
\* written as null; an undefined property is dropped and reads as undefined
\* again
stringify(key, value) ==
  LET null == 0 - 999999998
      Num(x) == IF IsSpecial(x) THEN null ELSE x
      Table(q) == [s \in DOMAIN q |-> [a \in DOMAIN q[s] |-> Num(q[s][a])]]
      parsed ==
        CASE key \in {"qtables", "deepQtables"} -> Table(value)
          [] key = "metaQtables" ->
               [m \in DOMAIN value |->
                  [i \in DOMAIN value[m] |-> [value[m][i] EXCEPT !.v = Num(@)]]]
          [] key = "patternMemory" ->
               [i \in DOMAIN value |-> [value[i] EXCEPT !.successRate = Num(@)]]
          [] key = "contextMemory" ->
               [i \in DOMAIN value |->
                  [value[i] EXCEPT !.volatility = Num(@), !.entropy = Num(@),
                                   !.confidence = Num(@)]]
          [] key = "modelPerformance" -> value
          [] key = "tradeHistory" ->
               [i \in DOMAIN value |->
                  [value[i] EXCEPT !.confidence = Num(@),
                                   !.smoothedConfidence = Num(@),
                                   !.entropy = Num(@), !.volatility = Num(@),
                                   !.weights = [m \in DOMAIN @ |-> Num(@[m])],
                                   !.consensusAgreement = Num(@),
                                   !.stake = Num(@), !.healthScore = Num(@)]]
  IN IF key \in TableKeys /\ value = JsonNull
       THEN JsonNull
       ELSE [kind |-> "json", value |-> parsed]

\* new Storage() on a data directory without files
NewStore ==
  [disk |-> [k \in PersistedKeys |-> NoFile],
   cache |-> [k \in PersistedKeys |-> NoEntry]]

\* a storage.set whose failure still reaches the cache
storageSetCachesAnyway(st, key, text, outcome) ==
  [ok |-> outcome = "written",
   store |-> [disk |-> [st.disk EXCEPT ![key] =
                          CASE outcome = "written" -> text
                            [] outcome = "torn" -> Unparseable
                            [] OTHER -> @],
              cache |-> [st.cache EXCEPT ![key] = text]]]

\* storage.set(key, value) with text = stringify(key, value).  fs.writeFile
\* writes the file ("written"), fails before it touches it ("failed") or
\* fails after truncating it ("torn"); the cache is set only after the write.
\* The entry is the value itself, which reads the same as its text unless a
\* number in it is NaN or infinite.
storageSet(st, key, text, outcome) ==
  IF outcome = "written"
    THEN [ok |-> TRUE,
          store |-> [disk |-> [st.disk EXCEPT ![key] = text],
                     cache |-> [st.cache EXCEPT ![key] = text]]]
    ELSE [ok |-> FALSE,
          store |-> [st EXCEPT !.disk[key] =
                       IF outcome = "torn" THEN Unparseable ELSE @]]

\* storage.get(key, defaultValue): readable = FALSE is a readFile error other
\* than ENOENT.  The value is returned in the form of a file's content.
storageGet(st, key, defaultValue, readable) ==
  IF st.cache[key].kind # "none"
    THEN [value |-> st.cache[key], store |-> st]
    ELSE IF st.disk[key].kind = "absent" \/ ~readable \/ st.disk[key].kind = "corrupt"
      THEN [value |-> defaultValue, store |-> st]
      ELSE [value |-> st.disk[key],
            store |-> [st EXCEPT !.cache[key] = st.disk[key]]]

\* the body of the try block of loadPersistedData: threw says whether the log
\* line (Object.keys(this.qTable), this.patternMemory.length,
\* this.contextMemory.length) raised a TypeError on a null
loadPersistedDataUnguarded(b, st, readable) ==
  LET Field(k) ==
        CASE k = "qtables" -> "qTable"
          [] k = "deepQtables" -> "deepQTable"
          [] k = "metaQtables" -> "metaQTable"
          [] OTHER -> k
      Default(k) ==
        CASE k = "qtables" -> stringify(k, getDefaultQTable)
          [] k = "deepQtables" -> stringify(k, getDefaultDeepQTable)
          [] k = "metaQtables" -> stringify(k, getDefaultMetaQTable)
          [] k = "modelPerformance" -> JsonNull
          [] OTHER -> stringify(k, <<>>)
      order == <<"qtables", "deepQtables", "metaQtables", "patternMemory",
                 "contextMemory", "modelPerformance", "tradeHistory">>
      StoreAfter[n \in 0..Len(order)] ==
        IF n = 0 THEN st
        ELSE storageGet(StoreAfter[n - 1], order[n], Default(order[n]), readable).store
      Got(n) == storageGet(StoreAfter[n - 1], order[n], Default(order[n]), readable).value
      Value(n) == IF Got(n).kind = "json" THEN Got(n).value ELSE JsonNull
      performance == IF Got(6).kind = "json" THEN Got(6).value ELSE b.modelPerformance
  IN [b |-> [b EXCEPT !.qTable = Value(1), !.deepQTable = Value(2),
                      !.metaQTable = Value(3), !.patternMemory = Value(4),
                      !.contextMemory = Value(5), !.modelPerformance = performance,
                      !.tradeHistory = Value(7)],
      store |-> StoreAfter[Len(order)],
      threw |-> \E n \in {1, 4, 5} : Got(n).kind = "null"]

\* loadPersistedData: the catch logs and returns
loadPersistedData(b, st, readable) ==
  [loadPersistedDataUnguarded(b, st, readable) EXCEPT !.threw = FALSE]

\* the texts savePersistedData hands to storage.set, taken when it is called
savePersistedData(b) ==
  [k \in PersistedKeys |->
     stringify(k, CASE k = "qtables" -> b.qTable
                    [] k = "deepQtables" -> b.deepQTable
                    [] k = "metaQtables" -> b.metaQTable
                    [] k = "patternMemory" -> b.patternMemory
                    [] k = "contextMemory" -> b.contextMemory
                    [] k = "modelPerformance" -> b.modelPerformance
                    [] k = "tradeHistory" -> LastN(b.tradeHistory, 100))]

\* Promise.all of the seven storage.set calls: outcomes[k] is the fate of the
\* write of key k; a failed set resolves to false, so nothing is thrown
WriteAll(st, texts, outcomes) ==
  [disk |-> [k \in PersistedKeys |->
               storageSet(st, k, texts[k], outcomes[k]).store.disk[k]],
   cache |-> [k \in PersistedKeys |->
                storageSet(st, k, texts[k], outcomes[k]).store.cache[k]]]

(***************************************************************************)
(* State                                                                   *)
(***************************************************************************)
VARIABLES
  cfg,       \* the configuration of this run
  bot,       \* the fields of the DerivTradingBot instance
  venue,     \* what the venue holds for the bot's connection
  timers,    \* the pending setTimeout callbacks, each with the time left
  flushing,  \* handlers suspended at `await this.savePersistedData()`
  store,     \* the Storage singleton: its files and its cache
  applied,   \* history: one entry per outcome that reached a trade record
  nextId     \* history: the ordinal of the next decision (its timestamp)

vars == <<cfg, bot, venue, timers, flushing, store, applied, nextId>>

\* the instance after the constructor and loadPersistedData on an empty store,
\* with connect() under way
NewBot(c) ==
  [ws |-> "connecting",
   isConnected |-> FALSE,
   reconnectAttempts |-> 0,
   exited |-> FALSE,
   isBotRunning |-> FALSE,
   isPending |-> FALSE,
   currentContractId |-> 0,
   nextTradeTime |-> 0,
   tickHistory |-> <<>>,
   tradeHistory |-> <<>>,
   qTable |-> getDefaultQTable,
   deepQTable |-> getDefaultDeepQTable,
   metaQTable |-> getDefaultMetaQTable,
   patternMemory |-> <<>>,
   contextMemory |-> <<>>,
   modelPerformance |-> initModelPerformance,
   wins |-> 0,
   losses |-> 0,
   consecutiveLosses |-> 0,
   currentLearningRate |-> c.baseLearningRate,
   smoothedConfidence |-> 500,
   currentMode |-> "balanced",
   lastHealthScore |-> S,
   integrity |-> [score |-> S, recentAnomalies |-> 0]]

NoVenue ==
  [auth |-> FALSE, history |-> FALSE, ticks |-> FALSE,
   proposals |-> <<>>, buys |-> <<>>, contracts |-> <<>>, closes |-> 0,
   replied |-> "none", lastTick |-> "none"]

NoTimers == [analyze |-> <<>>, sim |-> <<>>, reconnect |-> 0 - 1]

InitWith(configs) ==
  /\ cfg \in configs
  /\ bot = NewBot(cfg)
  /\ venue = NoVenue
  /\ timers = NoTimers
  /\ flushing = <<>>
  /\ store = NewStore
  /\ applied = <<>>
  /\ nextId = 1

\* send(data): the request reaches the venue only through an open socket
Send(b, v, sent) == IF b.ws = "open" THEN sent ELSE v

(***************************************************************************)
(* Connection                                                              *)
(***************************************************************************)
\* ws.on('open'): authorize()
OnOpen ==
  /\ ~bot.exited
  /\ bot.ws = "connecting"
  /\ bot' = [bot EXCEPT !.ws = "open", !.reconnectAttempts = 0]
  /\ venue' = [venue EXCEPT !.auth = TRUE]
  /\ UNCHANGED <<cfg, store, timers, flushing, applied, nextId>>

handleAuthorize(b) == [b EXCEPT !.isConnected = TRUE]

HandleAuthorize ==
  /\ ~bot.exited
  /\ bot.ws = "open"
  /\ venue.auth
  /\ bot' = handleAuthorize(bot)
  /\ venue' = [venue EXCEPT !.auth = FALSE, !.history = TRUE]
  /\ UNCHANGED <<cfg, store, timers, flushing, applied, nextId>>

startBot(b) == IF Len(b.tickHistory) < 30 THEN b ELSE [b EXCEPT !.isBotRunning = TRUE]

handleHistory(b, historicalTicks, c) ==
  startBot([b EXCEPT !.tickHistory = LastN(historicalTicks, c.maxHistory)])

HandleHistory(historicalTicks) ==
  /\ ~bot.exited
  /\ bot.ws = "open"
  /\ venue.history
  /\ bot' = handleHistory(bot, historicalTicks, cfg)
  /\ venue' = [venue EXCEPT !.history = FALSE, !.ticks = TRUE]
  /\ UNCHANGED <<cfg, store, timers, flushing, applied, nextId>>

\* ws.on('close'): handleDisconnect(); the venue drops the connection's requests
\* and subscriptions (the contracts themselves stay open at the venue)
OnClose(maxCloses) ==
  /\ ~bot.exited
  /\ bot.ws \in {"open", "connecting"}
  /\ venue.closes < maxCloses
  /\ venue' = [NoVenue EXCEPT !.closes = venue.closes + 1,
                              !.contracts =
                 [i \in 1..Len(venue.contracts) |->
                    [venue.contracts[i] EXCEPT !.subscribed = FALSE]]]
  /\ IF cfg.reconnectEnabled /\ bot.reconnectAttempts < cfg.reconnectMaxAttempts
       THEN /\ bot' = [bot EXCEPT !.ws = "closed", !.isConnected = FALSE,
                                  !.reconnectAttempts = @ + 1]
            /\ timers' = [timers EXCEPT !.reconnect = cfg.reconnectIntervalMs]
       ELSE /\ bot' = [bot EXCEPT !.ws = "closed", !.isConnected = FALSE,
                                  !.exited = TRUE]
            /\ timers' = timers
  /\ UNCHANGED <<cfg, store, flushing, applied, nextId>>

\* the reconnect timer: connect()
Reconnect ==
  /\ ~bot.exited
  /\ timers.reconnect = 0
  /\ bot' = [bot EXCEPT !.ws = "connecting"]
  /\ timers' = [timers EXCEPT !.reconnect = 0 - 1]
  /\ UNCHANGED <<cfg, store, venue, flushing, applied, nextId>>


(***************************************************************************)
(* Ticks                                                                   *)
(***************************************************************************)
\* validateTickData without the floor of the score
validateTickDataNoFloor(b, jump) ==
  IF Len(b.tickHistory) = 0
    THEN [valid |-> TRUE, integrity |-> b.integrity]
    ELSE IF jump
      THEN [valid |-> FALSE,
            integrity |-> [score |-> Mul(b.integrity.score, 950),
                           recentAnomalies |-> b.integrity.recentAnomalies + 10]]
      ELSE [valid |-> TRUE,
            integrity |-> IF b.integrity.recentAnomalies > 0
                            THEN [score |-> Min(S, b.integrity.score + 10),
                                  recentAnomalies |->
                                    Max(0, b.integrity.recentAnomalies - 1)]
                            ELSE b.integrity]

\* validateTickData: `jump` says that |quote - previous quote| exceeds five
\* times the recent volatility (a function of the quotes the venue chose)
validateTickData(b, jump) ==
  IF Len(b.tickHistory) = 0
    THEN [valid |-> TRUE, integrity |-> b.integrity]
    ELSE IF jump
      THEN [valid |-> FALSE,
            integrity |-> [score |-> Max(500, Mul(b.integrity.score, 950)),
                           recentAnomalies |-> b.integrity.recentAnomalies + 10]]
      ELSE [valid |-> TRUE,
            integrity |-> IF b.integrity.recentAnomalies > 0
                            THEN [score |-> Min(S, b.integrity.score + 10),
                                  recentAnomalies |->
                                    Max(0, b.integrity.recentAnomalies - 1)]
                            ELSE b.integrity]

RecentEntropy(b) ==
  IF Len(b.tickHistory) >= 50 THEN calculateEntropy(b.tickHistory, 50) ELSE 800

\* a tuner that raises the learning rate without the limit of 1.2 x base
autoTuneUncapped(b, c) ==
  LET totalTrades == b.wins + b.losses
      winRate == RDiv(b.wins * S, totalTrades)
  IN IF totalTrades < 10
       THEN b
       ELSE [b EXCEPT !.currentLearningRate =
               IF winRate < 450 THEN Mul(b.currentLearningRate, 1050)
               ELSE IF winRate > 550
                 THEN Max(10, Mul(b.currentLearningRate, c.learningRateDecay))
                 ELSE b.currentLearningRate]

autoTuneLearningParameters(b, c) ==
  LET totalTrades == b.wins + b.losses
      winRate == RDiv(b.wins * S, totalTrades)
      recentEntropy == RecentEntropy(b)
      lr == IF winRate < 450
              THEN Min(Mul(c.baseLearningRate, 1200), Mul(b.currentLearningRate, 1050))
              ELSE IF winRate > 550
                THEN Max(10, Mul(b.currentLearningRate, c.learningRateDecay))
                ELSE b.currentLearningRate
      mode == IF recentEntropy > 900 /\ b.currentMode # "exploration"
                THEN "exploration"
                ELSE IF recentEntropy < 700 /\ b.currentMode # "precision"
                  THEN "precision"
                  ELSE IF recentEntropy >= 700 /\ recentEntropy <= 900
                          /\ b.currentMode # "balanced"
                    THEN "balanced"
                    ELSE b.currentMode
  IN IF totalTrades < 10
       THEN b
       ELSE [b EXCEPT !.currentLearningRate = lr, !.currentMode = mode]

\* whether a forced cooldown starts, and nextTradeTime after the call
shouldEnterCooldown(b) ==
  IF b.consecutiveLosses >= 3 /\ RecentEntropy(b) > 900
    THEN [cooldown |-> TRUE, nextTradeTime |-> (5 + b.consecutiveLosses) * 20]
    ELSE [cooldown |-> FALSE, nextTradeTime |-> b.nextTradeTime]

\* an eligibility test that forgets the verdict of validateTickData
EligibleWhateverTheTick(b, isValid) ==
  /\ b.isBotRunning
  /\ b.currentContractId = 0
  /\ b.nextTradeTime = 0
  /\ ~b.isPending

\* the eligibility test of handleTick (lines 417-421)
Eligible(b, isValid) ==
  /\ b.isBotRunning
  /\ b.currentContractId = 0
  /\ b.nextTradeTime = 0
  /\ ~b.isPending
  /\ isValid

\* a guard that lets the epoch of the last buffered tick in again
IsNewOrSameTick(b, epoch) ==
  Len(b.tickHistory) = 0 \/ epoch >= b.tickHistory[Len(b.tickHistory)].epoch

\* the duplicate guard of handleTick (line 391)
IsNewTick(b, epoch) ==
  Len(b.tickHistory) = 0 \/ epoch > b.tickHistory[Len(b.tickHistory)].epoch

\* a size limit that evicts the second oldest tick
PushTickKeepOldest(tickHistory, tick, maxHistory) ==
  LET pushed == Append(tickHistory, tick)
  IN IF Len(pushed) > maxHistory
       THEN <<Head(pushed)>> \o Tail(Tail(pushed))
       ELSE pushed

\* push and the size limit of handleTick (lines 396-403)
PushTick(tickHistory, tick, maxHistory) ==
  LET pushed == Append(tickHistory, tick)
  IN IF Len(pushed) > maxHistory THEN Tail(pushed) ELSE pushed

\* the test of line 405 on the buffer after the push and the shift
TunerDue(tickHistory) == Len(tickHistory) % 50 = 0

\* handleTick on a numeric quote: the instance afterwards, and whether a
\* deferred analyzeAndTrade was scheduled
handleTick(b, epoch, digit, jump, c) ==
  IF IsNewTick(b, epoch)
    THEN LET v == validateTickData(b, jump)
             kept == PushTick(b.tickHistory, [epoch |-> epoch, digit |-> digit],
                              c.maxHistory)
             b1 == [b EXCEPT !.integrity = v.integrity, !.tickHistory = kept]
             b2 == IF TunerDue(kept) THEN autoTuneLearningParameters(b1, c) ELSE b1
         IN IF Eligible(b2, v.valid)
              THEN LET cd == shouldEnterCooldown(b2)
                   IN [b |-> [b2 EXCEPT !.nextTradeTime = cd.nextTradeTime],
                       scheduled |-> ~cd.cooldown]
              ELSE [b |-> b2, scheduled |-> FALSE]
    ELSE [b |-> b, scheduled |-> FALSE]

\* handleTick without the isNaN test
onTickUnparsed(b, numeric, epoch, digit, jump, c) == handleTick(b, epoch, digit, jump, c)

\* handleTick from its first line: numeric = FALSE is a quote that parseFloat
\* turns into NaN (lines 377-382)
onTick(b, numeric, epoch, digit, jump, c) ==
  IF numeric THEN handleTick(b, epoch, digit, jump, c) ELSE [b |-> b, scheduled |-> FALSE]

\* what the venue sent last: a quote that is no number, an epoch the buffer
\* has already passed, a price jump beyond the threshold, or none of these
TickKind(b, numeric, epoch, jump) ==
  IF ~numeric THEN "malformed"
  ELSE IF ~IsNewTick(b, epoch) THEN "stale"
  ELSE IF jump /\ Len(b.tickHistory) > 0 THEN "anomalous"
  ELSE "clean"

\* a tick message
HandleTick(numeric, epoch, digit, jump) ==
  /\ ~bot.exited
  /\ bot.ws = "open"
  /\ venue.ticks
  /\ LET r == onTick(bot, numeric, epoch, digit, jump, cfg)
     IN /\ bot' = r.b
        /\ timers' = IF r.scheduled
                       THEN [timers EXCEPT !.analyze = Append(@, 1)]
                       ELSE timers
  /\ venue' = [venue EXCEPT !.lastTick = TickKind(bot, numeric, epoch, jump)]
  /\ UNCHANGED <<cfg, store, flushing, applied, nextId>>

(***************************************************************************)
(* The decision gate                                                       *)
(***************************************************************************)
\* executeTrade: the trade record pushed for a decision
TradeRecord(b, a, prediction, stake, rawConfidence, confidence, timestamp) ==
  [state |-> a.state,
   deepState |-> a.deepState,
   confidence |-> rawConfidence,
   smoothedConfidence |-> confidence,
   entropy |-> a.entropy,
   volatility |-> a.volatility,
   streak |-> a.streak,
   modelPredictions |-> a.modelPredictions,
   weights |-> a.weights,
   consensusAgreement |-> a.consensus.agreement,
   prediction |-> prediction,
   stake |-> stake,
   timestamp |-> timestamp,
   consecutiveLosses |-> b.consecutiveLosses,
   mode |-> b.currentMode,
   healthScore |-> b.lastHealthScore,
   dataIntegrity |-> b.integrity.score,
   profit |-> Undefined]

executeTrade(b, record, c) ==
  [b EXCEPT !.tradeHistory = LastN(Append(@, record), c.maxTradeHistory)]

\* a gate that asks for no consensus in precision mode
SkipsOnConfidenceOnly(confidence, adaptiveThreshold, mode, consensus) ==
  confidence # NaN /\ confidence < adaptiveThreshold

\* the gate of lines 671-682: TRUE when the decision is skipped
Skips(confidence, adaptiveThreshold, mode, consensus) ==
  \/ (confidence # NaN /\ confidence < adaptiveThreshold)
  \/ (mode = "precision" /\ ~consensus.hasConsensus)

\* lines 684-700: the stake is computed, the trade is recorded and proposed
Commit(b, a, prediction, rawConfidence, confidence, stake, timestamp, c) ==
  [b |-> executeTrade(b, TradeRecord(b, a, prediction, stake, rawConfidence,
                                     confidence, timestamp), c),
   proposal |-> <<[id |-> timestamp, side |-> prediction, stake |-> stake]>>]

\* lines 668-682: the adaptive threshold (which rewrites reasoningHealth) and
\* the two skips
Gate(b, a, prediction, rawConfidence, confidence, health, timestamp, c) ==
  IF Skips(confidence,
           ThresholdFor(health.healthScore, a.entropy, c.baseConfidenceThreshold),
           b.currentMode, a.consensus)
    THEN [b |-> [b EXCEPT !.isPending = FALSE,
                          !.smoothedConfidence = confidence,
                          !.lastHealthScore =
                            IF health.stored THEN health.healthScore ELSE @],
          proposal |-> <<>>]
    ELSE Commit([b EXCEPT !.isPending = TRUE,
                          !.smoothedConfidence = confidence,
                          !.lastHealthScore =
                            IF health.stored THEN health.healthScore ELSE @],
                a, prediction, rawConfidence, confidence,
                calculateStake(b.metaQTable, b.consecutiveLosses, a.volatility,
                               a.entropy, confidence, c),
                timestamp, c)

\* lines 641-662: the prediction, the raw confidence and its smoothing
Predict(b, a, explore, randomSide, rawConfidence, timestamp, c) ==
  Gate(b, a,
       IF explore
         THEN randomSide
         ELSE IF a.finalProbOdd # NaN /\ a.finalProbEven # NaN
                 /\ a.finalProbOdd > a.finalProbEven
           THEN "odd" ELSE "even",
       rawConfidence, Smooth(b.smoothedConfidence, rawConfidence),
       calculateReasoningHealth(b.tradeHistory), timestamp, c)

\* analyzeAndTrade with the draws of Math.random made: explore says the first
\* draw was below the mode's epsilon, randomSide is the side of the second
analyzeAndTrade(b, a, explore, randomSide, timestamp, c) ==
  IF Len(b.tickHistory) < 30
    THEN [b |-> b, proposal |-> <<>>]
    ELSE Predict(b, a, explore, randomSide,
                 IF explore THEN 500 ELSE RawConfidence(a), timestamp, c)

\* what a run of analyzeAndTrade leaves behind
Decided(r) ==
  /\ bot' = r.b
  /\ venue' = Send(bot, venue, [venue EXCEPT !.proposals = @ \o r.proposal])
  /\ nextId' = IF r.proposal = <<>> THEN nextId ELSE nextId + 1

\* a deferred analyzeAndTrade callback runs
AnalyzeAndTrade(volIn, trendIn, explore, randomSide) ==
  /\ ~bot.exited
  /\ timers.analyze # <<>>
  /\ Head(timers.analyze) = 0
  /\ explore => ModeEpsilon(bot.currentMode, cfg) > 0
  /\ Decided(analyzeAndTrade(bot, Analysis(bot, volIn, trendIn), explore, randomSide,
                             nextId, cfg))
  /\ timers' = [timers EXCEPT !.analyze = Tail(@)]
  /\ UNCHANGED <<cfg, store, flushing, applied>>


(***************************************************************************)
(* Outcomes                                                                *)
(***************************************************************************)
\* the second argument of updateModelPerformance at line 1305
OutcomeArgument(lastTrade, profit) == lastTrade.prediction

\* the strategy argument of updateMetaQTable at line 1314
StrategyArgument(lastTrade) == lastTrade.mode

\* the record processContractResult reads and writes (line 1294)
LastTradeIndex(b) == Len(b.tradeHistory)

\* processContractResult up to its periodic save: the instance afterwards and
\* whether it suspends at `await this.savePersistedData()`
processContractResult(b, profit, c) ==
  LET reward == IF profit > 0 THEN 1 ELSE 0 - 1
      b1 == IF profit > 0
              THEN [b EXCEPT !.wins = @ + 1, !.consecutiveLosses = 0]
              ELSE [b EXCEPT !.losses = @ + 1, !.consecutiveLosses = @ + 1]
      totalTrades == b1.wins + b1.losses
      n == LastTradeIndex(b)
  IN IF n = 0
       THEN [b |-> b1, flush |-> FALSE]
       ELSE LET lastTrade == b.tradeHistory[n]
                b2 == [b1 EXCEPT !.tradeHistory[n].profit = profit]
                b3 == updateQTable(b2, lastTrade.state, lastTrade.prediction, reward,
                                   lastTrade.deepState, c)
                b4 == [b3 EXCEPT
                         !.modelPerformance =
                           updateModelPerformance(@, lastTrade.modelPredictions,
                                                  OutcomeArgument(lastTrade, profit)),
                         !.contextMemory =
                           storeContext(@, lastTrade,
                                        IF profit > 0 THEN "win" ELSE "loss", c),
                         !.metaQTable =
                           updateMetaQTable(@, VolLevel(lastTrade.volatility),
                                            EntLevel(lastTrade.entropy),
                                            StrategyArgument(lastTrade), reward)]
                th == b.tickHistory
                b5 == IF Len(th) >= 6
                        THEN [b4 EXCEPT !.patternMemory =
                                storePattern(@,
                                  [i \in 1..5 |-> ClassOf(th[Len(th) - 6 + i])],
                                  lastTrade.prediction, profit > 0, c)]
                        ELSE b4
            IN [b |-> b5, flush |-> totalTrades % 10 = 0]

\* history: which decision's outcome went to which trade record
Applied(b, decision) ==
  IF Len(b.tradeHistory) = 0
    THEN <<>>
    ELSE <<[decision |-> decision,
            record |-> b.tradeHistory[LastTradeIndex(b)].timestamp]>>

\* the profit the venue pays on a stake
ProfitOf(stake, win) == IF win THEN Mul(stake, 950) ELSE 0 - stake

(***************************************************************************)
(* Proposal, buy and contract messages                                     *)
(***************************************************************************)
\* an error handler that leaves the pending flag alone
handleErrorKeepsPending(b, msgType) == b

\* handleMessage on a message that carries an error
handleError(b, msgType) == IF msgType = "proposal" THEN [b EXCEPT !.isPending = FALSE] ELSE b

\* the venue answers the oldest proposal request: "ok" with a proposal id,
\* "empty" without one, "error" with an error; venue.replied keeps the kind of
\* its last answer
\* a handleProposal that buys whether or not trading is enabled
ProposalReplyAlwaysBuys(kind) ==
  /\ ~bot.exited
  /\ bot.ws = "open"
  /\ venue.proposals # <<>>
  /\ LET p == Head(venue.proposals)
         v == [venue EXCEPT !.proposals = Tail(@), !.replied = kind]
     IN CASE kind = "error" ->
               /\ bot' = handleError(bot, "proposal")
               /\ venue' = v
          [] kind = "empty" ->
               /\ bot' = [bot EXCEPT !.isPending = FALSE]
               /\ venue' = v
          [] kind = "ok" ->
               /\ bot' = bot
               /\ venue' = [v EXCEPT !.buys = Append(@, p)]
  /\ UNCHANGED <<cfg, store, timers, flushing, applied, nextId>>

ProposalReply(kind) ==
  /\ ~bot.exited
  /\ bot.ws = "open"
  /\ venue.proposals # <<>>
  /\ LET p == Head(venue.proposals)
         v == [venue EXCEPT !.proposals = Tail(@), !.replied = kind]
     IN CASE kind = "error" ->
               /\ bot' = handleError(bot, "proposal")
               /\ venue' = v
               /\ timers' = timers
          [] kind = "empty" ->
               /\ bot' = [bot EXCEPT !.isPending = FALSE]
               /\ venue' = v
               /\ timers' = timers
          [] kind = "ok" ->
               IF cfg.enableTrading
                 THEN /\ bot' = bot
                      /\ venue' = [v EXCEPT !.buys = Append(@, p)]
                      /\ timers' = timers
                 ELSE /\ bot' = [bot EXCEPT !.isPending = FALSE]
                      /\ venue' = v
                      /\ timers' = [timers EXCEPT !.sim =
                                      Append(@, [due |-> 30, id |-> p.id,
                                                 price |-> p.stake])]
  /\ UNCHANGED <<cfg, store, flushing, applied, nextId>>

handleBuy(b, contractId) == [b EXCEPT !.currentContractId = contractId, !.isPending = FALSE]

\* the venue answers the oldest buy request
BuyReply(kind) ==
  /\ ~bot.exited
  /\ bot.ws = "open"
  /\ venue.buys # <<>>
  /\ LET p == Head(venue.buys)
         v == [venue EXCEPT !.buys = Tail(@)]
     IN IF kind = "error"
          THEN /\ bot' = handleError(bot, "buy")
               /\ venue' = v
          ELSE /\ bot' = handleBuy(bot, p.id)
               /\ venue' = [v EXCEPT !.contracts =
                              Append(@, [id |-> p.id, stake |-> p.stake,
                                         profit |-> Undefined, updates |-> 0,
                                         subscribed |-> TRUE])]
  /\ UNCHANGED <<cfg, store, timers, flushing, applied, nextId>>

\* lines 487-492: what handleContractUpdate does after processContractResult
finishContract(b, c) == [b EXCEPT !.currentContractId = 0, !.nextTradeTime = c.cooldownMs]

Forget(v, contractId) ==
  [v EXCEPT !.contracts =
     [i \in 1..Len(v.contracts) |->
        IF v.contracts[i].id = contractId
          THEN [v.contracts[i] EXCEPT !.subscribed = FALSE]
          ELSE v.contracts[i]]]

\* a proposal_open_contract message saying that contract i is sold; the first
\* one settles the contract (win says how), later ones repeat it
ContractUpdate(i, win, maxUpdates) ==
  /\ ~bot.exited
  /\ bot.ws = "open"
  /\ i \in 1..Len(venue.contracts)
  /\ venue.contracts[i].subscribed
  /\ venue.contracts[i].updates < maxUpdates
  /\ venue.contracts[i].profit # Undefined =>
       win = (venue.contracts[i].profit > 0)
  /\ LET ct == venue.contracts[i]
         profit == ProfitOf(ct.stake, win)
         v == [venue EXCEPT !.contracts[i].profit = profit,
                            !.contracts[i].updates = @ + 1]
     IN IF ct.id = bot.currentContractId
          THEN LET r == processContractResult(bot, profit, cfg)
               IN /\ applied' = applied \o Applied(bot, ct.id)
                  /\ IF r.flush
                       THEN /\ bot' = r.b
                            /\ venue' = v
                            /\ flushing' = Append(flushing, [contract |-> ct.id,
                                                        texts |-> savePersistedData(r.b)])
                       ELSE /\ bot' = finishContract(r.b, cfg)
                            /\ venue' = Send(bot, v, Forget(v, ct.id))
                            /\ flushing' = flushing
          ELSE /\ bot' = bot
               /\ venue' = v
               /\ UNCHANGED <<flushing, applied>>
  /\ UNCHANGED <<cfg, store, timers, nextId>>

\* savePersistedData completes, every write with the given outcome, and the
\* suspended handler resumes
FlushDone(outcome) ==
  /\ ~bot.exited
  /\ flushing # <<>>
  /\ Head(flushing).contract >= 0
  /\ LET f == Head(flushing)
     IN /\ IF f.contract = 0
             THEN UNCHANGED <<bot, venue>>
             ELSE /\ bot' = finishContract(bot, cfg)
                  /\ venue' = Send(bot, venue, Forget(venue, f.contract))
        /\ store' = WriteAll(store, f.texts, [k \in PersistedKeys |-> outcome])
  /\ flushing' = Tail(flushing)
  /\ UNCHANGED <<cfg, timers, applied, nextId>>

\* the dry-run timer of handleProposal: handleSimulatedContractClose
SimulatedClose(win) ==
  /\ ~bot.exited
  /\ timers.sim # <<>>
  /\ Head(timers.sim).due = 0
  /\ LET t == Head(timers.sim)
         r == processContractResult(bot, ProfitOf(t.price, win), cfg)
     IN /\ bot' = finishContract(r.b, cfg)
        /\ applied' = applied \o Applied(bot, t.id)
        /\ flushing' = IF r.flush
                       THEN Append(flushing, [contract |-> 0,
                                              texts |-> savePersistedData(r.b)])
                       ELSE flushing
  /\ timers' = [timers EXCEPT !.sim = Tail(@)]
  /\ UNCHANGED <<cfg, store, venue, nextId>>

(***************************************************************************)
(* Time                                                                    *)
(***************************************************************************)
Remaining ==
  {timers.analyze[i] : i \in 1..Len(timers.analyze)}
    \cup {timers.sim[i].due : i \in 1..Len(timers.sim)}
    \cup (IF timers.reconnect >= 0 THEN {timers.reconnect} ELSE {})

\* d units of time pass; no timer is overrun
Elapse(d) ==
  /\ ~bot.exited
  /\ d > 0
  /\ \A r \in Remaining : d <= r
  /\ Remaining # {} \/ bot.nextTradeTime > 0
  /\ timers' = [analyze |-> [i \in 1..Len(timers.analyze) |-> timers.analyze[i] - d],
                sim |-> [i \in 1..Len(timers.sim) |->
                           [timers.sim[i] EXCEPT !.due = @ - d]],
                reconnect |-> IF timers.reconnect >= 0 THEN timers.reconnect - d ELSE 0 - 1]
  /\ bot' = [bot EXCEPT !.nextTradeTime = Max(0, @ - d)]
  /\ UNCHANGED <<cfg, store, venue, flushing, applied, nextId>>

\* the time to the next deadline
NextDeadline ==
  LET waits == Remaining \cup (IF bot.nextTradeTime > 0 THEN {bot.nextTradeTime} ELSE {})
  IN IF waits = {} THEN 0 ELSE CHOOSE w \in waits : \A x \in waits : w <= x


(***************************************************************************)
(* The venue's inputs and the specifications                               *)
(***************************************************************************)
\* the history the venue returns: n ticks with epochs 1..n whose digits repeat
\* the given cycle
History(n, digits) ==
  [i \in 1..n |-> [epoch |-> i, digit |-> digits[((i - 1) % Len(digits)) + 1]]]

\* runs of five odd and five even digits, every digit equally often
RunsOfFive == <<1, 3, 5, 7, 9, 0, 2, 4, 6, 8>>
\* mostly odd digits
MostlyOdd == <<1, 3, 1, 3, 2>>

\* the last epoch the venue sends, the 'sold' updates it sends for a contract,
\* and the times the connection closes
MaxEpoch == 33
MaxSoldUpdates == 2
MaxCloses == 2

HistoryLen == 30
TickDigits == {1, 2}
VolChoices == {200, 800}
TrendChoices == {0}

LastEpoch == IF Len(bot.tickHistory) = 0 THEN 0 ELSE bot.tickHistory[Len(bot.tickHistory)].epoch

\* the venue's history reaches back HistoryLen ticks, or to the first epoch
Histories == {History(Max(HistoryLen, LastEpoch), MostlyOdd)}

VolInputs == IF Len(bot.tickHistory) < 50 THEN {0} ELSE VolChoices
TrendInputs == IF Len(bot.tickHistory) < 50 THEN {0} ELSE TrendChoices

Tick ==
  \E numeric \in BOOLEAN, epoch \in {LastEpoch, LastEpoch + 1}, digit \in TickDigits,
     jump \in BOOLEAN :
    /\ epoch <= MaxEpoch
    /\ (~numeric) => (epoch = LastEpoch /\ digit = 1 /\ ~jump)
    /\ HandleTick(numeric, epoch, digit, jump)

Decide ==
  \E volIn \in VolInputs, trendIn \in TrendInputs, explore \in BOOLEAN,
     randomSide \in Sides :
    /\ (~explore) => randomSide = "odd"
    /\ AnalyzeAndTrade(volIn, trendIn, explore, randomSide)

Next ==
  \/ OnOpen
  \/ HandleAuthorize
  \/ \E h \in Histories : HandleHistory(h)
  \/ OnClose(MaxCloses)
  \/ Reconnect
  \/ Tick
  \/ Decide
  \/ \E kind \in {"ok", "empty", "error"} : ProposalReply(kind)
  \/ \E kind \in {"ok", "error"} : BuyReply(kind)
  \/ \E i \in 1..Len(venue.contracts), win \in BOOLEAN : ContractUpdate(i, win, MaxSoldUpdates)
  \/ \E win \in BOOLEAN : SimulatedClose(win)
  \/ Elapse(NextDeadline)

Init == InitWith({LiveConfig, DryRunConfig})

Spec == Init /\ [][Next]_vars

(***************************************************************************)
(* A losing run: a venue that accepts every request, sends a tick only     *)
(* when the bot is idle, and settles every contract as a loss.  Ten        *)
(* outcomes are reached, so the periodic save of processContractResult     *)
(* happens.                                                                *)
(***************************************************************************)
MaxRunEpoch == 50

Idle ==
  /\ ~bot.isPending
  /\ bot.currentContractId = 0
  /\ bot.nextTradeTime = 0
  /\ timers.analyze = <<>>
  /\ flushing = <<>>

RunTick ==
  /\ Idle
  /\ LastEpoch < MaxRunEpoch
  /\ HandleTick(TRUE, LastEpoch + 1, MostlyOdd[(LastEpoch % Len(MostlyOdd)) + 1], FALSE)

RunNext ==
  \/ OnOpen
  \/ HandleAuthorize
  \/ \E h \in Histories : HandleHistory(h)
  \/ RunTick
  \/ AnalyzeAndTrade(0, 0, FALSE, "odd")
  \/ ProposalReply("ok")
  \/ BuyReply("ok")
  \/ \E i \in 1..Len(venue.contracts) : ContractUpdate(i, FALSE, MaxSoldUpdates)
  \/ \E outcome \in {"written", "failed", "torn"} : FlushDone(outcome)
  \/ Elapse(NextDeadline)

RunInit == InitWith({LiveConfig})

LosingRun == RunInit /\ [][RunNext]_vars

(***************************************************************************)
(* calculateStake as a function: the losing streak, the smoothed           *)
(* confidence and the strategy the meta table prefers are drawn in the     *)
(* initial state, the volatility and the entropy at the call.              *)
(***************************************************************************)
MaxLosses == 12

Confidences == {500, 600, 700, 900}

\* a meta table whose every bucket prefers the given strategy
Preferring(strategy) ==
  [m \in MetaStates |->
     [i \in 1..Len(Strategies) |->
        [k |-> Strategies[i], v |-> IF Strategies[i] = strategy THEN 600 ELSE 500]]]

MetaTables == {getDefaultMetaQTable} \cup {Preferring(Strategies[i]) : i \in 1..Len(Strategies)}

StakeInit ==
  /\ cfg = LiveConfig
  /\ \E n \in 0..MaxLosses, confidence \in Confidences, table \in MetaTables :
       bot = [NewBot(cfg) EXCEPT !.consecutiveLosses = n,
                                 !.smoothedConfidence = confidence,
                                 !.metaQTable = table]
  /\ venue = NoVenue
  /\ timers = NoTimers
  /\ flushing = <<>>
  /\ store = NewStore
  /\ applied = <<>>
  /\ nextId = 1

\* line 685: the stake of the proposal about to be sent
Quote(volatility, entropy) ==
  /\ venue' = [venue EXCEPT !.proposals =
                 <<[id |-> nextId, side |-> "odd",
                    stake |-> calculateStake(bot.metaQTable, bot.consecutiveLosses,
                                             volatility, entropy,
                                             bot.smoothedConfidence, cfg)]>>]
  /\ UNCHANGED <<cfg, store, bot, timers, flushing, applied, nextId>>

StakeNext == \E volatility \in {200, 500, 800}, entropy \in {500, 800, 950} :
               Quote(volatility, entropy)

StakeSpec == StakeInit /\ [][StakeNext]_vars

(***************************************************************************)
(* A sinking run: every contract settles as a loss, and the venue's ticks  *)
(* are such that each decision is taken on a full window of maxHistory     *)
(* ticks that ends on an odd digit after an even one (state 'odd', a short *)
(* streak), whose Markov row favours the side the Q-tables prefer at that  *)
(* moment.  Q-learning and the Markov model then always vote for the       *)
(* prediction, every trade lands in the same shallow row and the same      *)
(* deep-Q row, and each loss lowers the entry of the predicted side.       *)
(***************************************************************************)
SinkConfig ==
  [LiveConfig EXCEPT !.baseConfidenceThreshold = 450,
                     !.epsilon = 0,
                     !.maxHistory = 50,
                     !.cooldownMs = 600]

WindowLen == SinkConfig.maxHistory

\* the losses the venue settles, and the first trades, taken on the windows
\* on which the statistical, Markov and cycle models agree
MaxSinkTrades == 64
WarmUpTrades == 4

\* the volatility and the trend strength of the quotes, the same at every
\* decision: volatility 0.5, short and long EMA equal
SinkInputs == [volatility |-> 500, trend |-> 0]

Repeat(digits, n) == [i \in 1..n |-> digits[((i - 1) % Len(digits)) + 1]]

\* odd and even digits in turn: every odd digit is followed by an even one
AlternatingWindow == Repeat(<<2, 1, 4, 3, 0, 5>>, WindowLen)
\* runs of five odd digits: an odd digit is mostly followed by an odd one
OddRunsWindow ==
  SubSeq(Repeat(<<1, 1, 1, 2, 1, 1>>, WindowLen), 1, WindowLen - 2) \o <<2, 1>>
\* single odd digits at irregular distances, no cycle
IsolatedOddsWindow ==
  <<1, 0, 3, 2, 4, 5, 0, 2, 1, 4, 0, 2, 3, 4, 5, 0, 1, 2, 4, 0, 3, 2, 5, 4, 0,
    1, 2, 3, 4, 0, 2, 5, 4, 0, 2, 1, 4, 0, 3, 2, 4, 5, 0, 2, 4, 1, 0, 2, 4, 3>>
\* as many odd digits as even ones, the odd ones in runs, no cycle
BalancedRunsWindow ==
  <<0, 2, 4, 0, 2, 4, 0, 2, 4, 1, 3, 5, 1, 3, 0, 2, 4, 5, 1, 3, 5, 0, 1, 3, 5,
    2, 4, 0, 2, 4, 0, 1, 3, 5, 2, 4, 0, 2, 4, 1, 3, 5, 1, 3, 5, 1, 3, 5, 0, 1>>

\* the vote of the Q-learning model in state 'odd' and the deep state of
\* SinkInputs with a short streak (lines 563-570 and 597)
PreferredSide ==
  LET deepQ == bot.deepQTable[getDeepState(SinkInputs.volatility, SinkInputs.trend, 1)]
      blendedQOdd == Mul(bot.qTable["odd"]["odd"], 400) + Mul(deepQ["odd"], 600)
      blendedQEven == Mul(bot.qTable["odd"]["even"], 400) + Mul(deepQ["even"], 600)
  IN IF blendedQOdd > blendedQEven THEN "odd" ELSE "even"

SettledTrades == bot.wins + bot.losses

\* the window the next decision is taken on
SinkWindow ==
  IF SettledTrades < WarmUpTrades
    THEN IF PreferredSide = "odd" THEN OddRunsWindow ELSE AlternatingWindow
    ELSE IF PreferredSide = "odd" THEN BalancedRunsWindow ELSE IsolatedOddsWindow

\* the place of epoch e in its window
WindowPlace(e) == ((e - 1) % WindowLen) + 1

SinkHistory ==
  [i \in 1..(WindowLen - 1) |-> [epoch |-> i, digit |-> AlternatingWindow[i]]]

Settled ==
  /\ ~bot.isPending
  /\ bot.currentContractId = 0
  /\ timers.analyze = <<>>
  /\ flushing = <<>>

\* the ticks of a window but the last arrive during the cooldown
SinkQuietTick ==
  /\ Settled
  /\ bot.nextTradeTime > 0
  /\ WindowPlace(LastEpoch + 1) < WindowLen
  /\ HandleTick(TRUE, LastEpoch + 1, SinkWindow[WindowPlace(LastEpoch + 1)], FALSE)

\* the last tick of a window arrives after the cooldown
SinkTradeTick ==
  /\ Settled
  /\ bot.nextTradeTime = 0
  /\ WindowPlace(LastEpoch + 1) = WindowLen
  /\ SettledTrades < MaxSinkTrades
  /\ HandleTick(TRUE, LastEpoch + 1, SinkWindow[WindowLen], FALSE)

SinkElapse ==
  /\ timers.analyze # <<>> \/ WindowPlace(LastEpoch + 1) = WindowLen
  /\ Elapse(NextDeadline)

SinkNext ==
  \/ OnOpen
  \/ HandleAuthorize
  \/ HandleHistory(SinkHistory)
  \/ SinkQuietTick
  \/ SinkTradeTick
  \/ AnalyzeAndTrade(SinkInputs.volatility, SinkInputs.trend, FALSE, "odd")
  \/ ProposalReply("ok")
  \/ BuyReply("ok")
  \/ \E i \in 1..Len(venue.contracts) : ContractUpdate(i, FALSE, 1)
  \/ FlushDone("written")
  \/ SinkElapse

SinkInit == InitWith({SinkConfig})

SinkingRun == SinkInit /\ [][SinkNext]_vars

(***************************************************************************)
(* The feed: history loads longer than the buffer, and live ticks at       *)
(* least 100 ms apart that may repeat an epoch, carry a quote that is no   *)
(* number, or jump.  The confidence threshold is at its upper limit, so    *)
(* every analysis ends in a skip and the bot stays idle.                   *)
(***************************************************************************)
FeedConfig ==
  [LiveConfig EXCEPT !.baseConfidenceThreshold = 750,
                     !.epsilon = 0,
                     !.maxHistory = 32]

\* the ticks of a history reply, and the last epoch of the feed
FeedHistoryLen == 34
MaxFeedEpoch == 50

FeedDigit(epoch) == (7 * epoch) % 10

\* the latest FeedHistoryLen ticks, by ascending time as the venue serves them
FeedHistory ==
  LET last == Max(FeedHistoryLen, LastEpoch)
  IN [i \in 1..FeedHistoryLen |->
        [epoch |-> last - FeedHistoryLen + i,
         digit |-> FeedDigit(last - FeedHistoryLen + i)]]

FeedTick ==
  \E numeric \in BOOLEAN, epoch \in {LastEpoch - 1, LastEpoch, LastEpoch + 1},
     jump \in BOOLEAN :
    /\ timers.analyze = <<>>
    /\ epoch >= 1 /\ epoch <= MaxFeedEpoch
    /\ (~numeric \/ epoch <= LastEpoch) => ~jump
    /\ (~numeric) => epoch = LastEpoch + 1
    /\ HandleTick(numeric, epoch, FeedDigit(epoch), jump)

FeedNext ==
  \/ OnOpen
  \/ HandleAuthorize
  \/ HandleHistory(FeedHistory)
  \/ OnClose(1)
  \/ Reconnect
  \/ FeedTick
  \/ AnalyzeAndTrade(0, 0, FALSE, "odd")
  \/ Elapse(NextDeadline)

FeedInit == InitWith({FeedConfig})

FeedSpec == FeedInit /\ [][FeedNext]_vars

(***************************************************************************)
(* The store: an instance is initialised on a data directory in which some *)
(* files are damaged, and saves what it holds while some writes fail.      *)
(***************************************************************************)
MaxDamaged == 2

\* initialize() before loadPersistedData: the files of an earlier run that
\* has learned from one win, some of them absent, unparseable or null
StorageInit ==
  /\ cfg = LiveConfig
  /\ bot = [NewBot(cfg) EXCEPT !.ws = "closed"]
  /\ venue = NoVenue
  /\ timers = NoTimers
  /\ flushing = <<>>
  /\ applied = <<>>
  /\ nextId = 1
  /\ \E damaged \in SUBSET PersistedKeys, kind \in {NoFile, Unparseable, JsonNull} :
       /\ Cardinality(damaged) <= MaxDamaged
       /\ LET earlier == updateQTable(NewBot(cfg), "odd", "odd", 1,
                                      CHOOSE d \in DeepStates : TRUE, cfg)
              Damage(k) == IF kind = JsonNull /\ k \notin TableKeys
                             THEN Unparseable ELSE kind
          IN store = [disk |-> [k \in PersistedKeys |->
                                  IF k \in damaged THEN Damage(k)
                                  ELSE savePersistedData(earlier)[k]],
                      cache |-> [k \in PersistedKeys |-> NoEntry]]

\* initialize(): loadPersistedData, then connect(); an exception that left
\* loadPersistedData would end in the catch of initialize, process.exit(1)
Load(readable) ==
  /\ ~bot.exited
  /\ bot.ws = "closed"
  /\ LET r == loadPersistedData(bot, store, readable)
     IN /\ bot' = IF r.threw THEN [r.b EXCEPT !.exited = TRUE]
                             ELSE [r.b EXCEPT !.ws = "connecting"]
        /\ store' = r.store
  /\ UNCHANGED <<cfg, venue, timers, flushing, applied, nextId>>

\* savePersistedData from call to completion; the writes of the keys in
\* failing end with the given outcome
Save(failing, outcome) ==
  /\ ~bot.exited
  /\ bot.ws = "connecting"
  /\ store' = WriteAll(store, savePersistedData(bot),
                       [k \in PersistedKeys |->
                          IF k \in failing THEN outcome ELSE "written"])
  /\ UNCHANGED <<cfg, bot, venue, timers, flushing, applied, nextId>>

StorageNext ==
  \/ \E readable \in BOOLEAN : Load(readable)
  \/ \E failing \in SUBSET PersistedKeys, outcome \in {"failed", "torn"} :
       Cardinality(failing) <= MaxDamaged /\ Save(failing, outcome)

StorageSpec == StorageInit /\ [][StorageNext]_vars

(***************************************************************************)
(* The consensus of the eight models, for every assignment of their votes  *)
(***************************************************************************)
\* analyzeAndTrade line 605: the consensus of one assignment of votes, kept
\* with the votes
Consensus(votes) ==
  /\ LET c == checkModelConsensus(votes)
     IN applied' = <<[consensus |-> [agreement |-> c.agreement,
                                     hasConsensus |-> c.hasConsensus,
                                     prediction |-> c.prediction],
                      votes |-> votes]>>
  /\ UNCHANGED <<cfg, bot, venue, timers, flushing, store, nextId>>

ConsensusSpec ==
  InitWith({LiveConfig}) /\ [][\E votes \in [ModelSet -> Sides] : Consensus(votes)]_vars

(***************************************************************************)
(* Wins only: updateQTable with reward +1, from every start of one shallow *)
(* entry and of the learning rate                                          *)
(***************************************************************************)
MaxWins == 5

QStarts == {0 - 1000, 0 - 500, 0, 500, 900, 990, 997, 999}

LearningRates == {10, 150, 500, 990}

\* the instance with Q["odd"]["odd"] and the learning rate as drawn
WinsInit ==
  /\ cfg = LiveConfig
  /\ \E q \in QStarts, rate \in LearningRates :
       bot = [NewBot(cfg) EXCEPT !.qTable["odd"]["odd"] = q,
                                 !.currentLearningRate = rate]
  /\ venue = NoVenue
  /\ timers = NoTimers
  /\ flushing = <<>>
  /\ store = NewStore
  /\ applied = <<>>
  /\ nextId = 1

\* processContractResult for a win, its counters (lines 1279-1283) and its
\* updateQTable call (reward 1)
Win(state, action) ==
  /\ bot.wins < MaxWins
  /\ bot' = updateQTable([bot EXCEPT !.wins = @ + 1, !.consecutiveLosses = 0],
                         state, action, 1, CHOOSE d \in DeepStates : TRUE, cfg)
  /\ UNCHANGED <<cfg, venue, timers, flushing, store, applied, nextId>>

WinsSpec == WinsInit /\ [][\E state \in Sides, action \in Sides : Win(state, action)]_vars

(***************************************************************************)
(* The cyclic detector on buffers whose tail alternates                    *)
(***************************************************************************)
MaxCyclePeriod == 5
MaxPrefix == 3

\* the maxPeriod arguments: small ones, the default (10) and the one of
\* analyzeAndTrade (20)
CyclePeriods == (2..MaxCyclePeriod) \cup {10, 20}

\* n ticks that alternate between the two digits, after a prefix of ticks that
\* repeat one digit
AlternatingBuffer(prefix, prefixDigit, n, first, second) ==
  [i \in 1..(prefix + n) |->
     [digit |-> IF i <= prefix THEN prefixDigit
                ELSE IF (i - prefix) % 2 = 1 THEN first ELSE second,
      epoch |-> i]]

\* analyzeAndTrade line 587: the cycle found in a buffer, kept with the buffer
DetectCycle(history, maxPeriod) ==
  /\ applied' = <<[cycleInfo |-> detectCyclicPattern(history, maxPeriod),
                   history |-> history, maxPeriod |-> maxPeriod]>>
  /\ UNCHANGED <<cfg, bot, venue, timers, flushing, store, nextId>>

CycleNext ==
  \E maxPeriod \in CyclePeriods, prefix \in 0..MaxPrefix, prefixDigit \in {1, 2},
     odd \in {1, 9}, even \in {0, 8}, oddFirst \in BOOLEAN :
    DetectCycle(AlternatingBuffer(prefix, prefixDigit, 3 * maxPeriod,
                                  IF oddFirst THEN odd ELSE even,
                                  IF oddFirst THEN even ELSE odd),
                maxPeriod)

CycleSpec == InitWith({LiveConfig}) /\ [][CycleNext]_vars

(***************************************************************************)
(* The decision gate in every mode: a bot that is running on a full        *)
(* buffer after ten settled trades, in the mode the last tuning left it    *)
(* in.  Ticks arrive and each eligible one is followed by a decision.      *)
(***************************************************************************)
MaxGateEpoch == 52
GateHistoryLen == 50

GateCycles == {MostlyOdd, RunsOfFive, <<1, 2>>, <<1, 1, 2, 2>>, <<2, 4, 1>>}
GateConfidences == {500, 650, 800}
GateModes == {"balanced", "exploration", "precision"}

\* a settled trade of the past, taken on the buffer b holds
PastTrade(b, profit) ==
  [TradeRecord(b, Analysis(b, 200, 0), "odd", LiveConfig.baseStake, 600, 600, 0)
     EXCEPT !.profit = profit]

GateInit ==
  /\ cfg = LiveConfig
  /\ \E cycle \in GateCycles, mode \in GateModes, confidence \in GateConfidences,
        pastWins \in {5, 10} :
       LET b == [NewBot(cfg) EXCEPT !.ws = "open",
                                    !.isConnected = TRUE,
                                    !.isBotRunning = TRUE,
                                    !.tickHistory = History(GateHistoryLen, cycle),
                                    !.wins = pastWins,
                                    !.losses = 10 - pastWins,
                                    !.currentMode = mode,
                                    !.smoothedConfidence = confidence]
       IN bot = [b EXCEPT !.tradeHistory =
                   [i \in 1..10 |->
                      PastTrade(b, IF i > 10 - pastWins THEN 1000 ELSE 0 - 1000)]]
  /\ venue = [NoVenue EXCEPT !.auth = TRUE, !.history = TRUE, !.ticks = TRUE]
  /\ timers = NoTimers
  /\ flushing = <<>>
  /\ store = NewStore
  /\ applied = <<>>
  /\ nextId = 1

GateTick ==
  \E digit \in TickDigits :
    /\ LastEpoch < MaxGateEpoch
    /\ HandleTick(TRUE, LastEpoch + 1, digit, FALSE)

GateNext ==
  \/ GateTick
  \/ Decide
  \/ Elapse(NextDeadline)

GateSpec == GateInit /\ [][GateNext]_vars

(***************************************************************************)
(* Shutdown: a signal stops the bot and starts the last save; the process  *)
(* exits when the save has completed.  Timers that are due in between      *)
(* still fire.                                                             *)
(***************************************************************************)
\* stopBot line 528
stopBot(b) == [b EXCEPT !.isBotRunning = FALSE]

\* whether the save of a shutdown is under way (its entry carries contract -1)
Stopping == \E i \in 1..Len(flushing) : flushing[i].contract < 0

\* SIGINT, SIGTERM or SIGHUP: shutdown up to the await inside savePersistedData
Shutdown ==
  /\ ~bot.exited
  /\ ~Stopping
  /\ bot' = stopBot(bot)
  /\ flushing' = Append(flushing, [contract |-> 0 - 1, texts |-> savePersistedData(bot)])
  /\ UNCHANGED <<cfg, store, venue, timers, applied, nextId>>

\* the save of the shutdown completes: ws.close(), clearTimeout, process.exit(0)
ShutdownDone(outcome) ==
  /\ ~bot.exited
  /\ flushing # <<>>
  /\ Head(flushing).contract < 0
  /\ store' = WriteAll(store, Head(flushing).texts, [k \in PersistedKeys |-> outcome])
  /\ bot' = [bot EXCEPT !.ws = "closed", !.isConnected = FALSE, !.exited = TRUE]
  /\ timers' = [timers EXCEPT !.reconnect = 0 - 1]
  /\ flushing' = Tail(flushing)
  /\ UNCHANGED <<cfg, venue, applied, nextId>>

StopNext ==
  \/ GateTick
  \/ Decide
  \/ Elapse(NextDeadline)
  \/ Shutdown
  \/ \E outcome \in {"written", "failed"} : ShutdownDone(outcome)

StopSpec == GateInit /\ [][StopNext]_vars

(***************************************************************************)
(* The adaptive threshold as a function of the health score, the entropy   *)
(* and the configured base threshold                                       *)
(***************************************************************************)
MaxBaseStep == 9

\* health scores from the floor 0.3 to 1, with both sides of 0.6 and 0.85
HealthScores == {300, 450, 599, 600, 601, 700, 849, 850, 851, 1000}
ThresholdEntropies == {0, 700, 900, 901, 1000}
\* base thresholds from 0.40 in steps of 0.05
BaseThresholds == {400 + 50 * i : i \in 0..MaxBaseStep}

\* getAdaptiveConfidenceThreshold for one health score, entropy and base
AdaptThreshold(health, entropy, base) ==
  /\ applied' = <<[base |-> base, entropy |-> entropy, health |-> health,
                   threshold |-> ThresholdFor(health, entropy, base)]>>
  /\ UNCHANGED <<cfg, bot, venue, timers, flushing, store, nextId>>

ThresholdNext ==
  \E health \in HealthScores, entropy \in ThresholdEntropies, base \in BaseThresholds :
    AdaptThreshold(health, entropy, base)

ThresholdSpec == InitWith({LiveConfig}) /\ [][ThresholdNext]_vars

(***************************************************************************)
(* The forced cooldown: a running bot on a full buffer after a losing      *)
(* streak.  Ticks arrive 2 s or 2.5 s apart; the tick at which a cooldown  *)
(* was imposed last is remembered with the length of the cooldown.         *)
(***************************************************************************)
MaxCooldownEpoch == 60
MinStreak == 3

\* the time between two ticks, in units of 100 ms
TickGaps == {20, 25}

\* all ten digits in turn, and eight of them
CooldownCycles == {RunsOfFive, <<0, 1, 2, 3, 4, 5, 6, 7>>}

\* the bot d units of time later (Date.now() in line 419)
Later(b, d) == [b EXCEPT !.nextTradeTime = Max(0, @ - d)]

CooldownInit ==
  /\ cfg = LiveConfig
  /\ \E cycle \in CooldownCycles, streak \in MinStreak..(MinStreak + 1) :
       LET b == [NewBot(cfg) EXCEPT !.ws = "open",
                                    !.isConnected = TRUE,
                                    !.isBotRunning = TRUE,
                                    !.tickHistory = History(GateHistoryLen, cycle),
                                    !.losses = streak,
                                    !.consecutiveLosses = streak]
       IN bot = [b EXCEPT !.tradeHistory = [i \in 1..streak |-> PastTrade(b, 0 - 1000)]]
  /\ venue = [NoVenue EXCEPT !.auth = TRUE, !.history = TRUE, !.ticks = TRUE]
  /\ timers = NoTimers
  /\ flushing = <<>>
  /\ store = NewStore
  /\ applied = <<>>
  /\ nextId = 1

\* the next tick arrives, gap after the one before
PacedTick(gap, digit) ==
  /\ ~bot.exited
  /\ bot.ws = "open"
  /\ venue.ticks
  /\ timers.analyze = <<>>
  /\ LastEpoch < MaxCooldownEpoch
  /\ LET r == onTick(Later(bot, gap), TRUE, LastEpoch + 1, digit, FALSE, cfg)
     IN /\ bot' = r.b
        /\ timers' = IF r.scheduled
                       THEN [timers EXCEPT !.analyze = Append(@, 1)]
                       ELSE timers
        /\ applied' = IF r.b.nextTradeTime > 0 /\ Later(bot, gap).nextTradeTime = 0
                        THEN <<[epoch |-> LastEpoch + 1,
                                intervals |-> 5 + bot.consecutiveLosses]>>
                        ELSE applied
  /\ venue' = [venue EXCEPT !.lastTick = "clean"]
  /\ UNCHANGED <<cfg, store, flushing, nextId>>

\* the 100 ms of the deferred analyzeAndTrade pass
DecisionDue ==
  /\ timers.analyze # <<>>
  /\ Elapse(NextDeadline)

CooldownNext ==
  \/ \E gap \in TickGaps, digit \in TickDigits : PacedTick(gap, digit)
  \/ DecisionDue
  \/ Decide

CooldownSpec == CooldownInit /\ [][CooldownNext]_vars

(***************************************************************************)
(* The auto-tuner along a feed: a history of 48 ticks, then live ticks     *)
(* until the buffer has long been full.  The buffer holds 50 ticks in one  *)
(* configuration and 52 in the other; the epoch at which the tuner ran     *)
(* last is remembered.  The threshold is at its upper limit.               *)
(***************************************************************************)
MaxTunerEpoch == 104
TunerHistoryLen == 48

TunerConfigs ==
  {[LiveConfig EXCEPT !.baseConfidenceThreshold = 750, !.epsilon = 0,
                      !.maxHistory = capacity] : capacity \in {50, 52}}

\* the next tick of the feed
TunedTick ==
  /\ timers.analyze = <<>>
  /\ LastEpoch < MaxTunerEpoch
  /\ ~bot.exited
  /\ bot.ws = "open"
  /\ venue.ticks
  /\ LET r == onTick(bot, TRUE, LastEpoch + 1,
                     MostlyOdd[(LastEpoch % Len(MostlyOdd)) + 1], FALSE, cfg)
     IN /\ bot' = r.b
        /\ timers' = IF r.scheduled
                       THEN [timers EXCEPT !.analyze = Append(@, 1)]
                       ELSE timers
        /\ applied' = IF TunerDue(r.b.tickHistory)
                        THEN <<[ranAt |-> LastEpoch + 1]>>
                        ELSE applied
  /\ venue' = [venue EXCEPT !.lastTick = "clean"]
  /\ UNCHANGED <<cfg, store, flushing, nextId>>

TunerNext ==
  \/ OnOpen
  \/ HandleAuthorize
  \/ HandleHistory(History(TunerHistoryLen, MostlyOdd))
  \/ TunedTick
  \/ DecisionDue
  \/ AnalyzeAndTrade(200, 0, FALSE, "odd")

TunerSpec == InitWith(TunerConfigs) /\ [][TunerNext]_vars

(***************************************************************************)
(* The learning rate under Q-updates and auto-tuner runs, for several base *)
(* rates and decays, from the rates it can stand at and from records of    *)
(* past trades on both sides of the win rates 0.45 and 0.55                *)
(***************************************************************************)
MaxRateTrades == 12

RateConfigs ==
  {[LiveConfig EXCEPT !.baseLearningRate = base, !.learningRateDecay = decay] :
     base \in {10, 20, 50}, decay \in {500, 1000}}

\* wins and losses so far
PastRecords == {<<3, 6>>, <<4, 6>>, <<5, 5>>, <<6, 4>>}

RateInit ==
  /\ cfg \in RateConfigs
  /\ \E past \in PastRecords,
        rate \in {10, cfg.baseLearningRate, Mul(cfg.baseLearningRate, 1200)} :
       bot = [NewBot(cfg) EXCEPT !.wins = past[1],
                                 !.losses = past[2],
                                 !.currentLearningRate = rate]
  /\ venue = NoVenue
  /\ timers = NoTimers
  /\ flushing = <<>>
  /\ store = NewStore
  /\ applied = <<>>
  /\ nextId = 1

\* processContractResult: the counters (lines 1279-1286) and updateQTable
RateOutcome(win) ==
  /\ bot.wins + bot.losses < MaxRateTrades
  /\ bot' = updateQTable(IF win
                           THEN [bot EXCEPT !.wins = @ + 1, !.consecutiveLosses = 0]
                           ELSE [bot EXCEPT !.losses = @ + 1,
                                            !.consecutiveLosses = @ + 1],
                         "odd", "odd", IF win THEN 1 ELSE 0 - 1,
                         CHOOSE d \in DeepStates : TRUE, cfg)
  /\ UNCHANGED <<cfg, venue, timers, flushing, store, applied, nextId>>

\* handleTick line 406: the auto-tuner runs
RateTune ==
  /\ bot' = autoTuneLearningParameters(bot, cfg)
  /\ UNCHANGED <<cfg, venue, timers, flushing, store, applied, nextId>>

RateNext ==
  \/ \E win \in BOOLEAN : RateOutcome(win)
  \/ RateTune

RateSpec == RateInit /\ [][RateNext]_vars

(***************************************************************************)
(* Settled decisions in every mode: the decision gate, with a venue that   *)
(* accepts each proposal and buy and settles the contract as a win or a    *)
(* loss                                                                     *)
(***************************************************************************)
SettleNext ==
  \/ GateTick
  \/ Decide
  \/ Elapse(NextDeadline)
  \/ ProposalReply("ok")
  \/ BuyReply("ok")
  \/ \E i \in 1..Len(venue.contracts), win \in BOOLEAN : ContractUpdate(i, win, 1)

SettleSpec == GateInit /\ [][SettleNext]_vars

(***************************************************************************)
(* The pattern memory under storePattern calls, for capacities 1 and 2; the*)
(* arguments of the last call are remembered.                              *)
(***************************************************************************)
MaxStores == 4

PatternConfigs == {[LiveConfig EXCEPT !.maxPatternMemory = capacity] : capacity \in 1..3}

\* 5-class sequences
PatternSequences ==
  {<<1, 1, 1, 1, 1>>, <<0, 1, 0, 1, 0>>, <<1, 0, 1, 0, 1>>}

\* processContractResult line 1319: storePattern(patternSeq, prediction, profit > 0)
StorePattern(sequence, outcome, wasCorrect) ==
  /\ Len(applied) < MaxStores
  /\ bot' = [bot EXCEPT !.patternMemory = storePattern(@, sequence, outcome, wasCorrect, cfg)]
  /\ applied' = Append(applied, [outcome |-> outcome, sequence |-> sequence,
                                 wasCorrect |-> wasCorrect])
  /\ UNCHANGED <<cfg, venue, timers, flushing, store, nextId>>

PatternNext ==
  \E sequence \in PatternSequences, outcome \in Sides, wasCorrect \in BOOLEAN :
    StorePattern(sequence, outcome, wasCorrect)

PatternSpec == InitWith(PatternConfigs) /\ [][PatternNext]_vars

(***************************************************************************)
(* Decisions and their outcomes with ticks in between; a decision that     *)
(* trades leaves a note of the buffer tail it was taken on.                *)
(***************************************************************************)
MaxTailEpoch == 53

\* a live tick
TailTick ==
  \E digit \in TickDigits :
    /\ LastEpoch < MaxTailEpoch
    /\ HandleTick(TRUE, LastEpoch + 1, digit, FALSE)

\* analyzePatterns line 831: recent.slice(-patternLength).map(t => t.digit % 2)
CurrentPattern(tickHistory) ==
  [i \in 1..5 |-> ClassOf(tickHistory[Len(tickHistory) - 5 + i])]

\* a deferred analyzeAndTrade callback runs
NotedDecide ==
  \E volIn \in VolInputs, trendIn \in TrendInputs :
    /\ ~bot.exited
    /\ timers.analyze # <<>>
    /\ Head(timers.analyze) = 0
    /\ LET r == analyzeAndTrade(bot, Analysis(bot, volIn, trendIn), FALSE, "odd",
                                nextId, cfg)
       IN /\ Decided(r)
          /\ applied' = IF r.proposal # <<>>
                          THEN <<[epoch |-> LastEpoch,
                                  tail |-> CurrentPattern(bot.tickHistory)]>>
                          ELSE applied
    /\ timers' = [timers EXCEPT !.analyze = Tail(@)]
    /\ UNCHANGED <<cfg, store, flushing>>

TailNext ==
  \/ TailTick
  \/ NotedDecide
  \/ Elapse(NextDeadline)
  \/ ProposalReply("ok")
  \/ BuyReply("ok")
  \/ \E i \in 1..Len(venue.contracts), win \in BOOLEAN : ContractUpdate(i, win, 1)

\* a confident instance in balanced mode with an even record
TailInit ==
  /\ GateInit
  /\ bot.smoothedConfidence = 800
  /\ bot.wins = 5
  /\ bot.currentMode = "balanced"
  /\ bot.tickHistory \in {History(GateHistoryLen, MostlyOdd),
                         History(GateHistoryLen, RunsOfFive)}

TailSpec == TailInit /\ [][TailNext]_vars

(***************************************************************************)
(* The context memory under storeContext calls, for capacities 1 to 5; the *)
(* calls are remembered.                                                   *)
(***************************************************************************)
MaxContexts == 5
MaxContextCapacity == 5

ContextConfigs ==
  {[LiveConfig EXCEPT !.maxContextMemory = capacity] : capacity \in 1..MaxContextCapacity}

\* processContractResult line 1309: storeContext(lastTrade, profit > 0 ? 'win' : 'loss')
StoreContext(result) ==
  /\ Len(applied) < MaxContexts
  /\ LET trade == [volatility |-> 200, entropy |-> S, streak |-> 1, confidence |-> 600,
                   prediction |-> "odd", timestamp |-> Len(applied) + 1]
     IN bot' = [bot EXCEPT !.contextMemory = storeContext(@, trade, result, cfg)]
  /\ applied' = Append(applied, [result |-> result, timestamp |-> Len(applied) + 1])
  /\ UNCHANGED <<cfg, venue, timers, flushing, store, nextId>>

ContextNext == \E result \in {"win", "loss"} : StoreContext(result)

ContextSpec == InitWith(ContextConfigs) /\ [][ContextNext]_vars

(***************************************************************************)
(* Start-up on a history load of about 30 observations, followed by live   *)
(* ticks; every message the venue owes is eventually delivered.            *)
(***************************************************************************)
MaxStartEpoch == 33
ShortHistoryLen == 28

StartHistories == {History(n, MostlyOdd) : n \in ShortHistoryLen..(ShortHistoryLen + 2)}

\* a live tick
StartTick ==
  \E digit \in TickDigits :
    /\ LastEpoch < MaxStartEpoch
    /\ HandleTick(TRUE, LastEpoch + 1, digit, FALSE)

StartNext ==
  \/ OnOpen
  \/ HandleAuthorize
  \/ \E h \in StartHistories : HandleHistory(h)
  \/ StartTick
  \/ Decide
  \/ Elapse(NextDeadline)

\* the socket opens, the venue answers every request and keeps sending ticks
\* up to the last epoch considered, and time passes
StartFairness ==
  /\ WF_vars(OnOpen)
  /\ WF_vars(HandleAuthorize)
  /\ WF_vars(\E h \in StartHistories : HandleHistory(h))
  /\ WF_vars(StartTick)
  /\ WF_vars(Elapse(NextDeadline))

StartSpec == InitWith({LiveConfig}) /\ [][StartNext]_vars /\ StartFairness

(***************************************************************************)
(* The entropy of windows of many digit distributions                      *)
(***************************************************************************)
MaxStep == 3
MaxOlder == 1

EntropyWindows == {10, 20, 50}

\* n ticks whose digits run through offset + (i * step) % modulus
DigitWalk(n, step, modulus, offset) ==
  [i \in 1..n |-> [digit |-> (offset + ((i * step) % modulus)) % 10, epoch |-> i]]

\* analyzeAndTrade line 580 (window 50) and the default window (20): the
\* entropy of a buffer, kept with the buffer
MeasureEntropy(history, window) ==
  /\ applied' = <<[entropy |-> calculateEntropy(history, window),
                   history |-> history, window |-> window]>>
  /\ UNCHANGED <<cfg, bot, venue, timers, flushing, store, nextId>>

EntropyNext ==
  \E window \in EntropyWindows, older \in 0..MaxOlder, step \in 0..MaxStep,
     modulus \in {1, 2, 4, 5, 10}, offset \in {0, 1, 5} :
    MeasureEntropy(DigitWalk(window + older, step, modulus, offset), window)

EntropySpec == InitWith({LiveConfig}) /\ [][EntropyNext]_vars

(***************************************************************************)
(* Properties                                                              *)
(***************************************************************************)
Other(side) == IF side = "odd" THEN "even" ELSE "odd"

\* the trades the venue or a simulation timer still has to answer for
InFlight ==
  Len(venue.proposals) + Len(venue.buys) + Len(timers.sim)
    + (IF bot.currentContractId # 0 THEN 1 ELSE 0)

\* C1: at most one trade is unresolved at any time: requests at the venue,
\* simulated trades waiting for their close, and the open contract together
\* never number more than one.
AtMostOneTradeUnresolved == InFlight <= 1

\* an in-flight flag is set and nothing is left that could clear it: no request
\* at the venue, no subscribed contract with the current id, no suspended
\* handler, no timer
Stuck ==
  /\ ~bot.exited
  /\ bot.isPending \/ bot.currentContractId # 0
  /\ venue.proposals = <<>>
  /\ venue.buys = <<>>
  /\ flushing = <<>>
  /\ timers.analyze = <<>>
  /\ timers.sim = <<>>
  /\ ~\E i \in 1..Len(venue.contracts) :
        /\ venue.contracts[i].subscribed
        /\ venue.contracts[i].id = bot.currentContractId

\* C2: no in-flight state is left stuck: whenever isPending is true or
\* currentContractId is set, something that clears it is still to come.
InFlightStateCanClear == ~Stuck

\* once stuck, stuck until the process exits: no later tick is eligible
StuckStaysStuck == [][Stuck => Stuck' \/ bot'.exited]_vars

\* C3: when the venue answers a pending proposal with an error, the handler
\* clears the pending flag and changes nothing else of the instance, and it
\* schedules nothing.
ProposalErrorClearsOnlyPending ==
  [][ProposalReply("error") =>
       /\ bot' = [bot EXCEPT !.isPending = FALSE]
       /\ timers' = timers]_vars

\* C3, reached: the venue has answered a proposal with an error while the
\* decision was pending, the flag is clear and the trade stayed unresolved.
ProposalErrorHandled ==
  /\ venue.replied = "error"
  /\ ~bot.isPending
  /\ bot.tradeHistory # <<>>
  /\ bot.tradeHistory[Len(bot.tradeHistory)].profit = Undefined
  /\ bot.currentContractId = 0

\* C4: each contract's settlement is applied exactly once, however many
\* 'sold' updates the venue delivers for it: no decision appears twice among
\* the applied outcomes.
SettlementAppliedOnce ==
  \A i, j \in 1..Len(applied) : applied[i].decision = applied[j].decision => i = j

\* C5: every outcome is written to the record of the decision that produced
\* it, and no record receives a profit twice.
OutcomeWrittenToOwnRecord ==
  /\ \A i \in 1..Len(applied) : applied[i].record = applied[i].decision
  /\ \A i, j \in 1..Len(applied) : applied[i].record = applied[j].record => i = j

\* C6: the weights getAdaptiveWeights returns for the model counters sum to 1
\* (within the rounding of eight terms) and each is at least 0.05.
AdaptiveWeightsNormalisedAndFloored ==
  /\ Abs(SumModels(getAdaptiveWeights(bot.modelPerformance)) - S) <= 8
  /\ \A m \in ModelSet : getAdaptiveWeights(bot.modelPerformance)[m] >= 50

\* posteriorOdd + posteriorEven of bayesianFusion for an analysis
PosteriorTotal(a) ==
  S + SumModels([m \in ModelSet |->
                   Mul(a.weights[m], a.modelProbs[m].odd)
                     + Mul(a.weights[m], a.modelProbs[m].even)])

\* C7: whatever outcomes the Q-tables and memories have learned, the final
\* fused probabilities of the analysis that is about to run lie in [0, 1] and
\* sum to 1 (within rounding), and the normalising total of the fusion is
\* positive.
FusedProbabilitiesValid ==
  (timers.analyze # <<>> /\ Head(timers.analyze) = 0 /\ Len(bot.tickHistory) >= 30) =>
    LET a == Analysis(bot, SinkInputs.volatility, SinkInputs.trend)
    IN /\ a.finalProbOdd >= 0 /\ a.finalProbOdd <= S
       /\ a.finalProbEven >= 0 /\ a.finalProbEven <= S
       /\ Abs(a.finalProbOdd + a.finalProbEven - S) <= 1
       /\ PosteriorTotal(a) > 0

\* C8: the stake of every proposal is at most 10 x baseStake, whatever the
\* losing streak, the preferred strategy and the confidence.
StakeWithinCap ==
  \A i \in 1..Len(venue.proposals) : venue.proposals[i].stake <= 10 * cfg.baseStake

\* C8, reached: a stake held at the limit after a losing streak that would
\* otherwise exceed it.
StakeHeldAtCap ==
  /\ bot.consecutiveLosses >= 4
  /\ \E i \in 1..Len(venue.proposals) : venue.proposals[i].stake = 10 * cfg.baseStake

\* the side that won, given the prediction and the profit
Realised(prediction, profit) == IF profit > 0 THEN prediction ELSE Other(prediction)

\* the counters after one outcome, counted against the side that won
CountedAgainst(performance, trade, outcome) ==
  [m \in ModelSet |->
     [total |-> performance[m].total + 1,
      correct |-> performance[m].correct
                  + (IF trade.modelPredictions[m] = outcome THEN 1 ELSE 0)]]

\* C9: when an outcome is processed, each model's total grows by one and its
\* correct counter grows exactly when its recorded vote equals the side that
\* actually won.
CountersFollowRealisedOutcome ==
  [][applied' # applied =>
       bot'.modelPerformance =
         CountedAgainst(bot.modelPerformance,
                        bot.tradeHistory[Len(bot.tradeHistory)],
                        Realised(bot.tradeHistory[Len(bot.tradeHistory)].prediction,
                                 bot'.tradeHistory[Len(bot.tradeHistory)].profit))]_vars

\* the shallow table changes at the trade's state and side, and nowhere else
ShallowFrame(trade) ==
  /\ bot'.qTable[trade.state][trade.prediction] # bot.qTable[trade.state][trade.prediction]
  /\ \A s \in Sides, a \in Sides :
       <<s, a>> # <<trade.state, trade.prediction>> => bot'.qTable[s][a] = bot.qTable[s][a]

\* the deep table changes at the trade's bucket and side, and nowhere else
DeepFrame(trade) ==
  /\ bot'.deepQTable[trade.deepState][trade.prediction]
       # bot.deepQTable[trade.deepState][trade.prediction]
  /\ \A d \in DeepStates, a \in Sides :
       <<d, a>> # <<trade.deepState, trade.prediction>>
         => bot'.deepQTable[d][a] = bot.deepQTable[d][a]

\* one snapshot of the trade is appended (below capacity)
ContextFrame(trade) ==
  Len(bot.contextMemory) < cfg.maxContextMemory =>
    /\ Len(bot'.contextMemory) = Len(bot.contextMemory) + 1
    /\ SubSeq(bot'.contextMemory, 1, Len(bot.contextMemory)) = bot.contextMemory
    /\ bot'.contextMemory[Len(bot'.contextMemory)].timestamp = trade.timestamp

\* the five classes before the newest tick
PatternKey == [i \in 1..5 |-> ClassOf(bot.tickHistory[Len(bot.tickHistory) - 6 + i])]

\* one entry with the pattern's key is updated or (below capacity) inserted
PatternFrame ==
  IF \E i \in 1..Len(bot.patternMemory) : bot.patternMemory[i].sequence = PatternKey
    THEN /\ Len(bot'.patternMemory) = Len(bot.patternMemory)
         /\ \E i \in 1..Len(bot.patternMemory) :
              /\ bot.patternMemory[i].sequence = PatternKey
              /\ bot'.patternMemory[i] # bot.patternMemory[i]
              /\ bot'.patternMemory[i].sequence = PatternKey
              /\ \A j \in 1..Len(bot.patternMemory) :
                   j # i => bot'.patternMemory[j] = bot.patternMemory[j]
    ELSE Len(bot.patternMemory) < cfg.maxPatternMemory =>
           /\ Len(bot'.patternMemory) = Len(bot.patternMemory) + 1
           /\ SubSeq(bot'.patternMemory, 1, Len(bot.patternMemory)) = bot.patternMemory
           /\ bot'.patternMemory[Len(bot'.patternMemory)].sequence = PatternKey

\* C10: processing one outcome for a recorded trade changes exactly one entry
\* of the shallow table, exactly one entry of the deep table, appends one
\* context snapshot and inserts or updates one pattern entry; every other entry
\* of the four structures is unchanged (capacities not exceeded).
OutcomeTouchesOneEntryEach ==
  [][applied' # applied =>
       /\ ShallowFrame(bot.tradeHistory[Len(bot.tradeHistory)])
       /\ DeepFrame(bot.tradeHistory[Len(bot.tradeHistory)])
       /\ ContextFrame(bot.tradeHistory[Len(bot.tradeHistory)])
       /\ PatternFrame]_vars

\* C10, reached: an outcome has been processed for a recorded trade and left
\* its snapshot and its pattern behind.
OutcomeLearned ==
  /\ applied # <<>>
  /\ bot.tradeHistory[Len(bot.tradeHistory)].profit # Undefined
  /\ Len(bot.contextMemory) >= 1
  /\ Len(bot.patternMemory) >= 1

\* a live tick went into the buffer in this step (a history load happens only
\* before the subscription to ticks)
TickAccepted == venue.ticks /\ bot'.tickHistory # bot.tickHistory

MalformedTickIgnored ==
  \A epoch \in {LastEpoch, LastEpoch + 1}, jump \in BOOLEAN :
    onTick(bot, FALSE, epoch, FeedDigit(epoch), jump, cfg) = [b |-> bot, scheduled |-> FALSE]

\* C12, reached: a malformed tick arrived while a numeric one with a new
\* epoch would have scheduled a decision; none is scheduled.
MalformedTickArrived ==
  /\ venue.lastTick = "malformed"
  /\ Len(bot.tickHistory) >= 30
  /\ onTick(bot, TRUE, LastEpoch + 1, FeedDigit(LastEpoch + 1), FALSE, cfg).scheduled
  /\ timers.analyze = <<>>

\* the eligibility of a tick apart from its own validity, for the instance b
\* before the tick and the instance after it
OtherwiseEligible(b, after) ==
  /\ b.isBotRunning
  /\ b.currentContractId = 0
  /\ b.nextTradeTime = 0
  /\ ~b.isPending
  /\ ~shouldEnterCooldown(after).cooldown

\* C13: an anomalous tick is appended to the buffer and schedules no decision
\* (ticks arrive with no analysis pending, so a pending analysis after an
\* anomalous tick would be its own), and the clean tick after it schedules one
\* whenever it is otherwise eligible.
AnomalySuppressesOnlyItself ==
  /\ venue.lastTick = "anomalous" => timers.analyze = <<>>
  /\ Len(bot.tickHistory) > 0 =>
       LET e == LastEpoch + 1
           first == onTick(bot, TRUE, e, FeedDigit(e), TRUE, cfg)
           second == onTick(first.b, TRUE, e + 1, FeedDigit(e + 1), FALSE, cfg)
       IN /\ ~first.scheduled
          /\ first.b.tickHistory[Len(first.b.tickHistory)] = [epoch |-> e, digit |-> FeedDigit(e)]
          /\ OtherwiseEligible(first.b, second.b) => second.scheduled

\* C13, reached: a clean tick after anomalous ones has scheduled a decision.
CleanTickAfterAnomalyScheduled ==
  /\ venue.lastTick = "clean"
  /\ bot.integrity.recentAnomalies > 0
  /\ bot.integrity.score < S
  /\ timers.analyze # <<>>

\* C14: the integrity score stays in [0.5, 1.0]; an anomalous tick multiplies
\* it by 0.95 with the floor 0.5, and a clean tick that finds it below 1.0
\* raises it by 0.01 with the cap 1.0.
IntegrityScoreTracksTicks ==
  /\ [](bot.integrity.score >= 500 /\ bot.integrity.score <= S)
  /\ [][TickAccepted =>
          /\ venue'.lastTick = "anomalous" =>
               bot'.integrity.score = Max(500, Mul(bot.integrity.score, 950))
          /\ (venue'.lastTick = "clean" /\ bot.integrity.score < S) =>
               bot'.integrity.score = Min(S, bot.integrity.score + 10)]_vars

\* C14, reached: anomalous ticks have brought the score to the floor.
IntegrityScoreAtFloor ==
  /\ venue.lastTick = "anomalous"
  /\ bot.integrity.score = 500

\* C15: the buffer never holds more than limits.maxHistory ticks, and a tick
\* accepted into a full buffer evicts the oldest one and keeps the others in
\* order, with the new tick last.
BufferBoundedOldestEvicted ==
  /\ [](Len(bot.tickHistory) <= cfg.maxHistory)
  /\ [][(TickAccepted /\ Len(bot.tickHistory) = cfg.maxHistory) =>
          /\ Len(bot'.tickHistory) = cfg.maxHistory
          /\ SubSeq(bot'.tickHistory, 1, cfg.maxHistory - 1) = Tail(bot.tickHistory)
          /\ bot'.tickHistory[cfg.maxHistory].epoch > bot.tickHistory[cfg.maxHistory].epoch]_vars

\* C15, reached: live ticks were accepted into the full buffer that a history
\* load had cut to its limit.
BufferFullAfterEviction ==
  /\ venue.lastTick \in {"clean", "anomalous"}
  /\ Len(bot.tickHistory) = cfg.maxHistory
  /\ cfg.maxHistory < FeedHistoryLen
  /\ bot.tickHistory[1].epoch > FeedHistoryLen - cfg.maxHistory + 1

\* C16: when the process exits because reconnection is exhausted or disabled,
\* the learning state has been flushed: after outcomes were learned, the files
\* hold what savePersistedData writes for the instance that exits.
FinalFlushBeforeExit ==
  (bot.exited /\ bot.wins + bot.losses > 0) => store.disk = savePersistedData(bot)

\* C17: persistence failures are not fatal.  storage.get gives back the
\* default when the key is not cached and its file is absent, unreadable or
\* unparseable; storage.set answers false on a failed write and leaves the
\* cache entry of the key as it was; no exception leaves loadPersistedData
\* (the process does not exit in initialize), and the writes of
\* savePersistedData fail without one.
PersistenceFailuresContained ==
  /\ \A k \in PersistedKeys, readable \in BOOLEAN :
     \A defaultValue \in {JsonNull, savePersistedData(bot)[k]} :
       (/\ store.cache[k] = NoEntry
        /\ store.disk[k] \in {NoFile, Unparseable} \/ ~readable)
         => storageGet(store, k, defaultValue, readable)
              = [value |-> defaultValue, store |-> store]
  /\ \A k \in PersistedKeys, outcome \in {"failed", "torn"} :
       LET r == storageSet(store, k, savePersistedData(bot)[k], outcome)
       IN ~r.ok /\ r.store.cache[k] = store.cache[k]
  /\ ~bot.exited
  /\ \A readable \in BOOLEAN : ~loadPersistedData(bot, store, readable).threw

\* C17, reached: the load met a null table and an unparseable file, and a save
\* has torn a file whose key was cached.
DamagedStoreSurvived ==
  /\ bot.ws = "connecting"
  /\ bot.qTable = JsonNull
  /\ \E k \in PersistedKeys : store.disk[k] = Unparseable /\ store.cache[k] = NoEntry
  /\ \E k \in PersistedKeys : store.disk[k] = Unparseable /\ store.cache[k].kind = "json"

\* C18: a periodic flush does not block the decision path: while
\* savePersistedData is in progress for the trade that triggered it, that
\* trade is already marked resolved (no contract is current), so that a tick
\* which is otherwise eligible starts a decision.
FlushDoesNotBlockDecisions ==
  \A i \in 1..Len(flushing) :
    flushing[i].contract # 0 =>
      /\ bot.currentContractId # flushing[i].contract
      /\ LET e == LastEpoch + 1
             r == onTick(bot, TRUE, e, FeedDigit(e), FALSE, cfg)
         IN (bot.isBotRunning /\ ~bot.isPending /\ bot.nextTradeTime = 0
             /\ ~shouldEnterCooldown(r.b).cooldown) => r.scheduled

\* the votes of the side with more votes
MajorityCount(votes) ==
  LET count(side) == Cardinality({m \in ModelSet : votes[m] = side})
  IN IF count("odd") >= count("even") THEN count("odd") ELSE count("even")

\* C19: for every assignment of eight odd/even votes the agreement is the
\* majority count divided by 8, lies in [0.5, 1.0], and hasConsensus is true
\* exactly when the agreement is at least 0.6.
ConsensusIsMajorityShare ==
  \A i \in 1..Len(applied) :
    LET e == applied[i]
    IN /\ Cardinality(ModelSet) = 8
       /\ e.consensus.agreement * 8 = MajorityCount(e.votes) * S
       /\ e.consensus.agreement >= 500 /\ e.consensus.agreement <= S
       /\ e.consensus.hasConsensus <=> e.consensus.agreement >= 600

\* C19, reached: five votes against three, which is a consensus, with the
\* majority on the even side.
FiveToThreeIsConsensus ==
  /\ applied # <<>>
  /\ MajorityCount(applied[1].votes) = 5
  /\ applied[1].consensus.prediction = "even"
  /\ applied[1].consensus.hasConsensus

\* the shallow table after a win on Q[state][action]
AfterWin(state, action) ==
  updateQTable(bot, state, action, 1, CHOOSE d \in DeepStates : TRUE, cfg).qTable

\* the other three shallow entries are as they were
OthersKept(state, action) ==
  \A s \in Sides, a \in Sides :
    <<s, a>> # <<state, action>> => AfterWin(state, action)[s][a] = bot.qTable[s][a]

\* C20, as amended: from a shallow value below 1 and a learning rate in (0,1),
\* a win never lowers Q[state][action], raises it whenever the step
\* rate * (1 - Q) does not round to zero, never takes it above 1, and leaves
\* the other three shallow entries as they were.
WinNeverLowersQ ==
  \A state \in Sides, action \in Sides :
    LET q == bot.qTable[state][action]
        after == AfterWin(state, action)[state][action]
    IN (q < S /\ bot.currentLearningRate > 0 /\ bot.currentLearningRate < S) =>
         /\ after >= q
         /\ Mul(bot.currentLearningRate, S - q) > 0 => after > q
         /\ after <= S
         /\ OthersKept(state, action)

\* C20, as stated: every win strictly increases Q[state][action].
WinStrictlyRaisesQ ==
  \A state \in Sides, action \in Sides :
    LET q == bot.qTable[state][action]
        after == AfterWin(state, action)[state][action]
    IN (q < S /\ bot.currentLearningRate > 0 /\ bot.currentLearningRate < S) =>
         /\ after > q
         /\ after <= S
         /\ OthersKept(state, action)

\* C20, reached: after wins on one entry only, the entry is below 1 and the
\* next win leaves it where it is.
WinsStalledBelowOne ==
  /\ bot.wins > 1
  /\ bot.qTable["odd"]["odd"] > 900
  /\ bot.qTable["odd"]["odd"] < S
  /\ bot.qTable["odd"]["even"] = 500
  /\ bot.qTable["even"] = getDefaultQTable["even"]
  /\ AfterWin("odd", "odd")["odd"]["odd"] = bot.qTable["odd"]["odd"]

\* C21: each of the eight model outputs handed to the fusion is a pair whose
\* odd and even values sum to 1, whatever the buffer and the tables hold.
ModelOutputsSumToOne ==
  Len(bot.tickHistory) >= 30 =>
    \A volIn \in VolInputs, trendIn \in TrendInputs, m \in ModelSet :
      LET pair == Analysis(bot, volIn, trendIn).modelProbs[m]
      IN pair.odd + pair.even = S

\* C22: a model that lacks the history it needs contributes the neutral pair
\* (or no bias): the trend and entropy models below 50 ticks, the pattern
\* model on an empty pattern memory, the context bias below 20 contexts, the
\* Markov model below 3 ticks; and no non-finite value comes of it.
InsufficientHistoryIsNeutral ==
  /\ \A n \in 0..2 :
       LET p == calculateMarkovProbabilities(LastN(bot.tickHistory, n))
       IN p.oddToOdd = 500 /\ p.oddToEven = 500 /\ p.evenToOdd = 500 /\ p.evenToEven = 500
  /\ Len(bot.tickHistory) >= 30 =>
       \A volIn \in VolInputs, trendIn \in TrendInputs :
         LET a == Analysis(bot, volIn, trendIn)
         IN /\ Len(bot.tickHistory) < 50 =>
                 /\ a.modelProbs["trend"] = Neutral
                 /\ a.modelProbs["entropy"] = Neutral
            /\ bot.patternMemory = <<>> => a.modelProbs["pattern"] = Neutral
            /\ Len(bot.contextMemory) < 20 =>
                 getContextBias(bot.contextMemory, a.volatility, a.entropy, a.streak) = 0
            /\ \A m \in ModelSet :
                 ~IsSpecial(a.modelProbs[m].odd) /\ ~IsSpecial(a.modelProbs[m].even)

\* the classes of the last n ticks alternate
TailAlternates(history, n) ==
  /\ Len(history) >= n
  /\ \A i \in (Len(history) - n + 2)..Len(history) :
       ClassOf(history[i]) # ClassOf(history[i - 1])

\* C23: on a buffer whose trailing 3 * maxPeriod classes alternate with
\* period 2, detectCyclicPattern returns period 2, strength 1.0 and hasCycle
\* true: the smallest period of the best score wins against its multiples.
AlternationIsPeriodTwo ==
  \A i \in 1..Len(applied) :
    LET e == applied[i]
    IN TailAlternates(e.history, 3 * e.maxPeriod) =>
         e.cycleInfo = [hasCycle |-> TRUE, period |-> 2, strength |-> S]

\* C23, reached: the detector of analyzeAndTrade (maxPeriod 20) has run on a
\* buffer whose last 60 classes alternate behind a prefix that does not.
AlternatingTailDetected ==
  /\ applied # <<>>
  /\ applied[1].maxPeriod = 20
  /\ Len(applied[1].history) = 60 + MaxPrefix
  /\ TailAlternates(applied[1].history, 60)
  /\ ~TailAlternates(applied[1].history, 62)
  /\ applied[1].cycleInfo.period = 2

\* how often digit d occurs among the last n ticks
DigitCount(history, n, d) ==
  Cardinality({i \in (Len(history) - n + 1)..Len(history) : history[i].digit = d})

\* C24, as amended: on a buffer of at least `window` ticks the entropy lies in
\* [0,1]; it is 1.0 when the ten digits are equally frequent in the window
\* and 0.0 when the digit itself is constant over the window.
EntropyOfDigits ==
  \A i \in 1..Len(applied) :
    LET e == applied[i]
    IN Len(e.history) >= e.window =>
         /\ e.entropy >= 0 /\ e.entropy <= S
         /\ (\A d \in 0..9 : DigitCount(e.history, e.window, d) * 10 = e.window)
              => e.entropy = S
         /\ (\E d \in 0..9 : DigitCount(e.history, e.window, d) = e.window)
              => e.entropy = 0

\* C24, as stated: the entropy is 0.0 when the digit class is constant over
\* the window.
EntropyOfConstantClass ==
  \A i \in 1..Len(applied) :
    LET e == applied[i]
        tail == LastN(e.history, e.window)
    IN (/\ Len(e.history) >= e.window
        /\ \A k \in 1..Len(tail) : ClassOf(tail[k]) = ClassOf(tail[1]))
         => e.entropy = 0

\* C24, reached: the entropy of a window of 50 was measured in which every
\* digit occurs five times, and it is 1.0.
UniformWindowMeasured ==
  /\ applied # <<>>
  /\ applied[1].window = 50
  /\ Len(applied[1].history) > 50
  /\ \A d \in 0..9 : DigitCount(applied[1].history, 50, d) = 5
  /\ applied[1].entropy = S

\* a deferred analyzeAndTrade ran on a buffer long enough to be evaluated
Evaluated ==
  /\ Len(bot.tickHistory) >= 30
  /\ \E volIn \in VolInputs, trendIn \in TrendInputs, explore \in BOOLEAN,
        randomSide \in {"odd", "even"} :
       AnalyzeAndTrade(volIn, trendIn, explore, randomSide)

\* a trade command was sent
Traded == nextId' # nextId

\* C25: analyzeAndTrade sends a trade command and appends a trade record only
\* if the smoothed confidence is at least the adaptive threshold and, in
\* precision mode, the consensus agreement is at least 0.6; on every skip the
\* pending flag is cleared, nothing is sent and no record is appended.
TradeOnlyAboveThreshold ==
  [][/\ Traded =>
          LET trade == bot'.tradeHistory[Len(bot'.tradeHistory)]
          IN /\ ~IsSpecial(bot'.smoothedConfidence)
             /\ bot'.smoothedConfidence >=
                  getAdaptiveConfidenceThreshold(bot.tradeHistory, trade.entropy, cfg)
             /\ bot.currentMode = "precision" => trade.consensusAgreement >= 600
     /\ (Evaluated /\ ~Traded) =>
          /\ ~bot'.isPending
          /\ venue'.proposals = venue.proposals
          /\ bot'.tradeHistory = bot.tradeHistory]_vars

\* C25, reached: a trade was sent in precision mode, on a consensus, with a
\* smoothed confidence at or above the threshold.
PrecisionTradeSent ==
  /\ bot.tradeHistory # <<>>
  /\ venue.proposals # <<>>
  /\ LET trade == bot.tradeHistory[Len(bot.tradeHistory)]
     IN /\ trade.mode = "precision"
        /\ trade.consensusAgreement >= 600
        /\ trade.smoothedConfidence >= 520

\* C26: whenever analyzeAndTrade begins evaluating, the bot is still running
\* and the trade cooldown has elapsed, and no trade command is sent after
\* the bot was stopped.
StillEligibleWhenEvaluating ==
  [][/\ Evaluated => (bot.isBotRunning /\ bot.nextTradeTime = 0)
     /\ Traded => bot.isBotRunning]_vars

\* the trade record the step appended
NewTrade == bot'.tradeHistory[Len(bot'.tradeHistory)]

\* C27: in precision mode no decision is a random override: the raw
\* confidence is the larger fused probability and the predicted side is the
\* side that has it; and a random override, in the other modes, feeds a raw
\* confidence of exactly 0.5 into the smoothing.
PrecisionNeverExplores ==
  [][/\ (Evaluated /\ bot.currentMode = "precision") =>
          \E volIn \in VolInputs, trendIn \in TrendInputs :
            LET a == Analysis(bot, volIn, trendIn)
            IN /\ bot'.smoothedConfidence
                    = Smooth(bot.smoothedConfidence, Max(a.finalProbOdd, a.finalProbEven))
               /\ Traded =>
                    /\ NewTrade.volatility = a.volatility
                    /\ NewTrade.confidence = Max(a.finalProbOdd, a.finalProbEven)
                    /\ NewTrade.prediction = "odd" => a.finalProbOdd > a.finalProbEven
                    /\ NewTrade.prediction = "even" => a.finalProbEven >= a.finalProbOdd
     /\ \A volIn \in VolInputs, trendIn \in TrendInputs, randomSide \in Sides :
          (Len(bot.tickHistory) >= 30 /\ AnalyzeAndTrade(volIn, trendIn, TRUE, randomSide)) =>
             /\ bot.currentMode # "precision"
             /\ bot'.smoothedConfidence = Smooth(bot.smoothedConfidence, 500)
             /\ Traded => (NewTrade.confidence = 500 /\ NewTrade.prediction = randomSide)]_vars

\* C27, reached: a trade of precision mode went to the odd side on the larger
\* fused probability, and the smoothed confidence moved up with it.
PrecisionTradeOnFusedSide ==
  /\ venue.proposals # <<>>
  /\ LET trade == bot.tradeHistory[Len(bot.tradeHistory)]
     IN /\ trade.mode = "precision"
        /\ trade.prediction = "odd"
        /\ trade.confidence > 500
        /\ trade.smoothedConfidence > 500

\* C28: for every health score, entropy and base threshold the adaptive
\* threshold lies in [0.52, 0.75] and is the base, plus 0.08 if the health is
\* below 0.6 or minus 0.03 if it is above 0.85, plus 0.05 if the entropy is
\* above 0.9, clamped to that range.
ThresholdAdjustedThenClamped ==
  \A i \in 1..Len(applied) :
    LET e == applied[i]
        byHealth == IF e.health < 600 THEN 80 ELSE IF e.health > 850 THEN 0 - 30 ELSE 0
        byEntropy == IF e.entropy > 900 THEN 50 ELSE 0
        raw == e.base + byHealth + byEntropy
    IN /\ e.threshold >= 520
       /\ e.threshold <= 750
       /\ raw < 520 => e.threshold = 520
       /\ raw > 750 => e.threshold = 750
       /\ (raw >= 520 /\ raw <= 750) => e.threshold = raw

\* C28, reached: a base of 0.70 with a health below 0.6 and an entropy above
\* 0.9 was raised to 0.83 and clamped to 0.75.
ThresholdClampedAtCeiling ==
  /\ applied # <<>>
  /\ applied[1].base = 700
  /\ applied[1].health < 600
  /\ applied[1].entropy > 900
  /\ applied[1].threshold = 750

\* a deferred analyzeAndTrade was scheduled: a decision cycle starts
Scheduled == Len(timers'.analyze) > Len(timers.analyze)

\* the ticks that have arrived after the one that imposed the last cooldown
TicksSinceCooldown == LastEpoch - applied[1].epoch

\* C29: once a losing streak of three or more and a recent entropy above 0.9
\* were seen at an otherwise eligible tick, no decision cycle starts within
\* the next 5 + consecutiveLosses observation intervals.
NoDecisionWithinCooldown ==
  [][(Scheduled /\ applied # <<>>)
       => TicksSinceCooldown + 1 >= applied[1].intervals]_vars

\* C30: a forced cooldown is finite: once its 5 + consecutiveLosses intervals
\* have elapsed, an otherwise eligible clean tick starts a decision cycle.
CooldownEndsWithDecision ==
  [][(/\ applied # <<>>
      /\ bot.isBotRunning /\ bot.currentContractId = 0 /\ ~bot.isPending
      /\ timers.analyze = <<>>
      /\ LastEpoch' = LastEpoch + 1
      /\ TicksSinceCooldown + 1 >= applied[1].intervals)
       => Scheduled]_vars

\* a live tick was accepted
LiveTickAccepted == LastEpoch > 0 /\ LastEpoch' = LastEpoch + 1

\* the auto-tuner ran in this step
TunerRan == applied' # applied

\* C31: the auto-tuner runs once every 50 accepted observations, and never on
\* every tick, also after the buffer has reached its capacity.
TunerRunsEveryFifty ==
  [][LiveTickAccepted => (TunerRan <=> LastEpoch' % 50 = 0)]_vars

\* the mode the entropy of the last 50 ticks asks for
ModeFor(entropy) ==
  IF entropy > 900 THEN "exploration" ELSE IF entropy < 700 THEN "precision" ELSE "balanced"

\* C32: after every periodic evaluation the mode is the one the entropy of
\* the last 50 ticks asks for, however many trades have completed.
ModeFollowsEntropy ==
  [][TunerRan => bot'.currentMode = ModeFor(calculateEntropy(bot'.tickHistory, 50))]_vars

\* C33: the learning rate stays within [0.01, 1.2 x base]; a Q-update
\* multiplies it by the decay with a floor of 0.01, and the auto-tuner does
\* not lower it when the win rate is below 0.45.
LearningRateBounded ==
  /\ bot.currentLearningRate >= 10
  /\ bot.currentLearningRate <= Mul(cfg.baseLearningRate, 1200)
  /\ \A win \in BOOLEAN :
       updateQTable(bot, "odd", "odd", IF win THEN 1 ELSE 0 - 1,
                        CHOOSE d \in DeepStates : TRUE, cfg).currentLearningRate
             = Max(10, Mul(bot.currentLearningRate, cfg.learningRateDecay))
  /\ (bot.wins + bot.losses >= 10 /\ bot.wins * 1000 < 450 * (bot.wins + bot.losses)) =>
       autoTuneLearningParameters(bot, cfg).currentLearningRate >= bot.currentLearningRate

\* C33, reached: after ten trades with a win rate below 0.45 the tuner has
\* the learning rate at 1.2 x base, above the base rate.
LearningRateAtCeiling ==
  /\ bot.wins + bot.losses > 10
  /\ bot.wins * 1000 < 450 * (bot.wins + bot.losses)
  /\ bot.currentLearningRate = Mul(cfg.baseLearningRate, 1200)
  /\ bot.currentLearningRate > cfg.baseLearningRate
  /\ cfg.learningRateDecay < 1000

\* an outcome was processed for the last trade record
OutcomeProcessed ==
  /\ bot.tradeHistory # <<>>
  /\ bot'.wins + bot'.losses = bot.wins + bot.losses + 1

\* the keys of a bucket of the meta table
MetaKeys(entries) == {entries[i].k : i \in 1..Len(entries)}

\* C34: every bucket of the meta table holds exactly the keys conservative,
\* balanced and aggressive with numeric values, and an outcome updates, by
\* the rule with alpha 0.1 and gamma 0.9, the entry of the strategy that was
\* selected for the trade in the trade's bucket.
MetaTableKeyedByStrategy ==
  [][OutcomeProcessed =>
       LET trade == bot.tradeHistory[Len(bot.tradeHistory)]
           bucket == <<VolLevel(trade.volatility), EntLevel(trade.entropy)>>
           selected == selectStrategy(bot.metaQTable, trade.volatility, trade.entropy)
           reward == IF bot'.wins > bot.wins THEN 1 ELSE 0 - 1
           q == MetaValue(bot.metaQTable[bucket], selected)
       IN /\ \A m \in MetaStates :
               /\ Len(bot'.metaQTable[m]) = 3
               /\ MetaKeys(bot'.metaQTable[m])
                    = {Strategies[i] : i \in 1..Len(Strategies)}
               /\ \A i \in 1..3 : ~IsSpecial(bot'.metaQTable[m][i].v)
                                  /\ bot'.metaQTable[m][i].v # Undefined
          /\ MetaValue(bot'.metaQTable[bucket], selected)
               = q + Mul(100, reward * S + Mul(900, MetaMax(bot.metaQTable[bucket])) - q)]_vars

\* C35: selectStrategy returns one of conservative, balanced and aggressive,
\* one whose learned value is the highest of its bucket, for every meta
\* table that outcome processing has produced.
SelectedStrategyIsBest ==
  \A volatility \in {200, 500, 800}, entropy \in {500, 800, 950} :
    LET entries == bot.metaQTable[<<VolLevel(volatility), EntLevel(entropy)>>]
        selected == selectStrategy(bot.metaQTable, volatility, entropy)
    IN /\ selected \in {Strategies[i] : i \in 1..Len(Strategies)}
       /\ \A i \in 1..Len(entries) : MetaValue(entries, selected) >= entries[i].v

\* the score of the entry for the sequence after a storePattern call on pm,
\* whether or not the entry is kept
ScoreAfterStore(pm, call) ==
  LET found == {i \in 1..Len(pm) : pm[i].sequence = call.sequence}
  IN IF found = {}
       THEN IF call.wasCorrect THEN S ELSE 0
       ELSE LET e == pm[CHOOSE i \in found : TRUE]
                suc == e.successes + (IF call.wasCorrect THEN 1 ELSE 0)
            IN RDiv(suc * S, e.occurrences + 1) * (e.occurrences + 1)

\* C36: after a storePattern call the memory holds at most maxPatternMemory
\* entries, no two with the same sequence, each with successes <=
\* occurrences and successRate = successes / occurrences, and an entry that
\* was evicted has a score no greater than that of every entry retained.
PatternMemoryBoundedByScore ==
  [][bot'.patternMemory # bot.patternMemory \/ applied' # applied =>
       LET pm == bot'.patternMemory
           call == applied'[Len(applied')]
           kept == {pm[i].sequence : i \in 1..Len(pm)}
           evictedOld == {i \in 1..Len(bot.patternMemory) :
                            /\ bot.patternMemory[i].sequence \notin kept
                            /\ bot.patternMemory[i].sequence # call.sequence}
       IN /\ Len(pm) <= cfg.maxPatternMemory
          /\ \A i, j \in 1..Len(pm) : pm[i].sequence = pm[j].sequence => i = j
          /\ \A i \in 1..Len(pm) :
               /\ pm[i].successes <= pm[i].occurrences
               /\ pm[i].successRate = RDiv(pm[i].successes * S, pm[i].occurrences)
          /\ \A i \in evictedOld, j \in 1..Len(pm) :
               PatternScore(bot.patternMemory[i]) <= PatternScore(pm[j])
          /\ call.sequence \notin kept =>
               \A j \in 1..Len(pm) :
                 ScoreAfterStore(bot.patternMemory, call) <= PatternScore(pm[j])]_vars

\* C36, reached: the memory is full of entries that have succeeded, and the
\* last call, for a sequence that failed, left no entry behind.
FailedPatternEvicted ==
  /\ applied # <<>>
  /\ Len(bot.patternMemory) = cfg.maxPatternMemory
  /\ \A i \in 1..Len(bot.patternMemory) :
       /\ bot.patternMemory[i].successes > 0
       /\ bot.patternMemory[i].sequence # applied[Len(applied)].sequence

\* C37: the sequence looked up or inserted in pattern memory for an outcome
\* is the five classes at the tail of the buffer when the trade was decided,
\* whatever number of ticks arrived while the contract ran.
PatternStoredForDecisionTail ==
  [][/\ OutcomeProcessed
     /\ Len(applied) = 1
     /\ LastEpoch > applied[1].epoch
     => bot'.patternMemory =
          storePattern(bot.patternMemory, applied[1].tail,
                       bot.tradeHistory[Len(bot.tradeHistory)].prediction,
                       bot'.wins > bot.wins, cfg)]_vars

\* C38: after every storeContext call the context memory holds at most
\* maxContextMemory snapshots, for every positive capacity.
ContextMemoryWithinCapacity == Len(bot.contextMemory) <= cfg.maxContextMemory

\* the venue answers the oldest outstanding proposal request with a proposal
ProposalAnswered ==
  /\ venue.proposals # <<>>
  /\ venue' = [venue EXCEPT !.proposals = Tail(@), !.replied = "ok"]
  /\ bot' # bot \/ timers' # timers

\* C39: with trading disabled no buy command reaches the venue and no
\* contract is opened there, and a proposal reply clears the pending flag and
\* schedules one simulated outcome, changing nothing else.
DryRunNeverBuys ==
  [][~cfg.enableTrading =>
       /\ venue'.buys = <<>>
       /\ venue'.contracts = <<>>
       /\ ProposalAnswered =>
            /\ bot' = [bot EXCEPT !.isPending = FALSE]
            /\ Len(timers'.sim) = Len(timers.sim) + 1
            /\ timers' = [timers EXCEPT !.sim = timers'.sim]
            /\ UNCHANGED <<store, flushing, applied>>]_vars

\* C39, reached: in a dry run a proposal was answered while the bot was
\* waiting for it, and its simulated outcome is scheduled.
DryRunOutcomeScheduled ==
  /\ ~cfg.enableTrading
  /\ venue.replied = "ok"
  /\ timers.sim # <<>>
  /\ ~bot.isPending
  /\ bot.tradeHistory # <<>>

\* C40: once live ticks have brought the buffer to 30 observations the bot
\* eventually runs, also when the history load delivered fewer than 30.
StartsOnceBufferFilled ==
  (venue.ticks /\ Len(bot.tickHistory) >= 30) ~> bot.isBotRunning


\* In every run the running flag is raised only while a history reply is
\* handled (startBot has no other caller): a tick never raises it.
RunningFlagRaisedOnlyByHistory ==
  [][(bot'.isBotRunning /\ ~bot.isBotRunning) => (venue.history /\ ~venue'.history)]_vars

====
